---- MODULE Spec2Model ----
(***************************************************************************)
(* A model of the force evaluators of hoomd-blue:                          *)
(*   - EvaluatorPairExpandedLJ (hoomd/md/EvaluatorPairExpandedLJ.h)        *)
(*   - HelfrichMeshForceCompute (HelfrichMeshForceCompute.cc)              *)
(*                                                                         *)
(* Scalars are fixed-point numbers: the integer x stands for x / Scale.    *)
(* Sums are exact, products and quotients are truncated towards zero, and  *)
(* the values +inf, -inf and NaN of IEEE arithmetic are kept apart.        *)
(***************************************************************************)
EXTENDS Integers, Sequences, FiniteSets, TLC

(***************************************************************************)
(* Scalar arithmetic                                                       *)
(***************************************************************************)

\* one unit in the last place is 1/Scale = 0.001 = SMALL
Scale == 1000

\* the largest finite magnitude of the model's Scalars (1000.0)
MaxScalar == 1000000

PosInf == MaxScalar + 1
NegInf == -PosInf
NaN == MaxScalar + 2

Zero == 0
One == Scale

IsFinite(a) == a >= -MaxScalar /\ a <= MaxScalar

Abs(a) == IF a < 0 THEN -a ELSE a

Sgn(a) == IF a < 0 THEN -1 ELSE IF a > 0 THEN 1 ELSE 0

\* a result beyond the finite range overflows to an infinity
Sat(x) == IF x > MaxScalar THEN PosInf ELSE IF x < -MaxScalar THEN NegInf ELSE x

\* |a| * |b| / Scale for finite a, b, without leaving 32 bits
MulMag(a, b) == (a \div Scale) * b + ((a % Scale) * b) \div Scale

\* The operations are functions of their operands' values: an operand is
\* evaluated once, as the machine does.

FNegF[a \in Int] == IF a = NaN THEN NaN ELSE -a

FAddF[a \in Int, b \in Int] ==
    IF a = NaN \/ b = NaN THEN NaN
    ELSE IF a = PosInf THEN (IF b = NegInf THEN NaN ELSE PosInf)
    ELSE IF a = NegInf THEN (IF b = PosInf THEN NaN ELSE NegInf)
    ELSE IF b = PosInf \/ b = NegInf THEN b
    ELSE Sat(a + b)

FMulF[a \in Int, b \in Int] ==
    IF a = NaN \/ b = NaN THEN NaN
    ELSE IF ~IsFinite(a) \/ ~IsFinite(b)
         THEN (IF a = 0 \/ b = 0 THEN NaN ELSE Sgn(a) * Sgn(b) * PosInf)
    ELSE Sgn(a) * Sgn(b) * Sat(MulMag(Abs(a), Abs(b)))

FDivF[a \in Int, b \in Int] ==
    IF a = NaN \/ b = NaN THEN NaN
    ELSE IF ~IsFinite(a) THEN (IF ~IsFinite(b) THEN NaN
                               ELSE IF b < 0 THEN -a ELSE a)
    ELSE IF ~IsFinite(b) THEN 0
    ELSE IF b = 0 THEN (IF a = 0 THEN NaN ELSE Sgn(a) * PosInf)
    ELSE Sgn(a) * Sgn(b) * Sat((Abs(a) * Scale) \div Abs(b))

\* floor(sqrt(n)), searched in lo .. hi-1 with lo*lo <= n < hi*hi
ISqrtIn[n \in Nat, lo \in Nat, hi \in Nat] ==
    IF hi - lo <= 1 THEN lo
    ELSE IF ((lo + hi) \div 2) * ((lo + hi) \div 2) <= n
         THEN ISqrtIn[n, (lo + hi) \div 2, hi]
         ELSE ISqrtIn[n, lo, (lo + hi) \div 2]

FSqrtF[a \in Int] ==
    IF a = NaN \/ a < 0 THEN NaN
    ELSE IF a = PosInf THEN PosInf
    ELSE ISqrtIn[a * Scale, 0, IF a * Scale < 31623 THEN a * Scale + 1 ELSE 31623]

\* floor of the cube root
ICbrtIn[n \in Nat, lo \in Nat, hi \in Nat] ==
    IF hi - lo <= 1 THEN lo
    ELSE IF ((lo + hi) \div 2) * ((lo + hi) \div 2) * ((lo + hi) \div 2) <= n
         THEN ICbrtIn[n, (lo + hi) \div 2, hi]
         ELSE ICbrtIn[n, lo, (lo + hi) \div 2]

\* pow(a, 1/6) for a >= 0: the square root of the cube root
FPow6thF[a \in Int] ==
    IF a = NaN \/ a < 0 THEN NaN
    ELSE IF a = PosInf THEN PosInf
    ELSE IF a < 2 * Scale THEN FSqrtF[ICbrtIn[a * Scale * Scale, 0, 1260]]
    ELSE FSqrtF[100 * ICbrtIn[a, 0, 101]]

FNeg(a) == FNegF[a]
FAdd(a, b) == FAddF[a, b]
FSub(a, b) == FAddF[a, FNegF[b]]
FMul(a, b) == FMulF[a, b]
FDiv(a, b) == FDivF[a, b]
FSqrt(a) == FSqrtF[a]
\* fast::rsqrt
FRsqrt(a) == FDivF[One, FSqrtF[a]]
FPow6th(a) == FPow6thF[a]

\* IEEE comparisons: every comparison with a NaN is false
FLtF[a \in Int, b \in Int] == a # NaN /\ b # NaN /\ a < b
FLeF[a \in Int, b \in Int] == a # NaN /\ b # NaN /\ a <= b
FLt(a, b) == FLtF[a, b]
FGt(a, b) == FLtF[b, a]
FLe(a, b) == FLeF[a, b]
FGe(a, b) == FLeF[b, a]

\* F applied to the value of x
Eager(F(_), x) == CHOOSE y \in {F(v) : v \in {x}} : TRUE

(***************************************************************************)
(* EvaluatorPairExpandedLJ                                                 *)
(***************************************************************************)

VARIABLES
    ljArgs,      \* the (sigma, epsilon, delta) last passed to a param_type constructor
    params,      \* the param_type record
    dict,        \* the last result of param_type::asDict, or NoDict
    ev,          \* the evaluator object, or NoEval
    force_divr,  \* the caller's force_divr
    pair_eng,    \* the caller's pair_eng
    evalRet,     \* the last call of evalForceAndEnergy: arguments, result, pre-call outputs
    ljSteps      \* operations performed so far

ljVars == <<ljArgs, params, dict, ev, force_divr, pair_eng, evalRet, ljSteps>>

NoDict == [sigma |-> NaN, epsilon |-> NaN, delta |-> NaN, valid |-> FALSE]
NoEval == [rsq |-> 0, rcutsq |-> 0, lj1 |-> 0, lj2 |-> 0, delta |-> 0, valid |-> FALSE]
NoCall == [called |-> FALSE, e |-> NoEval, ret |-> FALSE, energy_shift |-> FALSE,
           wrote |-> {}, pre_force_divr |-> 0, pre_pair_eng |-> 0]

\* operations per behaviour
MaxLJSteps == 3

SigmaVals == {0, One}
EpsilonVals == {0, One}
DeltaVals == {0, One}
\* what an uninitialised Scalar member may hold
StaleScalars == {-One, 0, One}
RsqVals == {0, One, 4 * One, 9 * One}
\* pre-call contents of the output parameters
OutVals == {0, 7 * One}

\* param_type(): all three members zero
ParamDefault == [sigma_6 |-> 0, epsilon_x_4 |-> 0, delta |-> 0]

Sigma6(sigma) == FMul(FMul(FMul(FMul(FMul(sigma, sigma), sigma), sigma), sigma), sigma)

\* param_type(pybind11::dict v): a local named delta is read from the dict and
\* dropped; the member delta is never assigned and keeps what the storage held
ParamFromDict(sigma, epsilon, delta, stale) ==
    [sigma_6 |-> Sigma6(sigma), epsilon_x_4 |-> FMul(4 * One, epsilon), delta |-> stale]

\* param_type(Scalar sigma, Scalar epsilon, Scalar delta): the parameter delta
\* is not used; the member delta is never assigned
ParamFromScalars(sigma, epsilon, delta, stale) ==
    [sigma_6 |-> Sigma6(sigma), epsilon_x_4 |-> FMul(4 * One, epsilon), delta |-> stale]

\* param_type::asDict
AsDictOf(p) ==
    [sigma |-> FPow6th(p.sigma_6), epsilon |-> FDiv(p.epsilon_x_4, 4 * One),
     delta |-> p.delta, valid |-> TRUE]

\* EvaluatorPairExpandedLJ(_rsq, _rcutsq, _params)
EvaluatorCtor(rsq, rcutsq, p) ==
    [rsq |-> rsq, rcutsq |-> rcutsq,
     lj1 |-> FMul(FMul(p.epsilon_x_4, p.sigma_6), p.sigma_6),
     lj2 |-> FMul(p.epsilon_x_4, p.sigma_6),
     delta |-> p.delta, valid |-> TRUE]

\* r = 1 / rsqrt(rsq) and rcut = 1 / rsqrt(rcutsq)
RinvOf(e) == FRsqrt(e.rsq)
ROf(e) == FDiv(One, RinvOf(e))
RcutinvOf(e) == FRsqrt(e.rcutsq)
RcutOf(e) == FDiv(One, RcutinvOf(e))

\* a faulty variant: the cutoff tested on the shifted separation r - delta
InsideCutoff_Shifted(e, r, rcut) == FLt(FSub(r, e.delta), rcut) /\ e.lj1 # 0

\* the cutoff test of evalForceAndEnergy
InsideCutoff(e, r, rcut) == FLt(r, rcut) /\ e.lj1 # 0

Rmd6inv(e, r) ==
    LET rmd == FSub(r, e.delta)
        rmdinv == FDiv(One, rmd)
        rmd2inv == FMul(rmdinv, rmdinv)
    IN  FMul(FMul(rmd2inv, rmd2inv), rmd2inv)

\* force_divr as assigned inside the cutoff
ForceDivr(e, r, rinv) ==
    LET rmdinv == FDiv(One, FSub(r, e.delta))
        rmd6inv == Rmd6inv(e, r)
    IN  FMul(FMul(FMul(rinv, rmdinv), rmd6inv),
             FSub(FMul(FMul(12 * One, e.lj1), rmd6inv), FMul(6 * One, e.lj2)))

\* pair_eng before the shift: rmd6inv * (lj1 * rmd6inv - lj2)
UnshiftedEnergy(e, r) ==
    LET rmd6inv == Rmd6inv(e, r)
    IN  FMul(rmd6inv, FSub(FMul(e.lj1, rmd6inv), e.lj2))

\* the term subtracted when energy_shift is set: rcut6inv * (lj1 * rcut6inv - lj2)
ShiftTerm(e, rcutinv) ==
    LET rcut2inv == FMul(rcutinv, rcutinv)
        rcut6inv == FMul(FMul(rcut2inv, rcut2inv), rcut2inv)
    IN  FMul(rcut6inv, FSub(FMul(e.lj1, rcut6inv), e.lj2))

\* pair_eng as assigned inside the cutoff
PairEng(e, r, rcutinv, energy_shift) ==
    IF energy_shift THEN FSub(UnshiftedEnergy(e, r), ShiftTerm(e, rcutinv))
    ELSE UnshiftedEnergy(e, r)

\* evalForceAndEnergy(force_divr, pair_eng, energy_shift): the result and the
\* two reference parameters after the call
EvalForceAndEnergy(e, fdr, eng, energy_shift) ==
    LET rinv == RinvOf(e)
        r == ROf(e)
        rcutinv == RcutinvOf(e)
        rcut == RcutOf(e)
    IN  IF InsideCutoff(e, r, rcut)
        THEN [ret |-> TRUE, force_divr |-> ForceDivr(e, r, rinv),
              pair_eng |-> PairEng(e, r, rcutinv, energy_shift),
              wrote |-> {"force_divr", "pair_eng"}]
        ELSE [ret |-> FALSE, force_divr |-> fdr, pair_eng |-> eng, wrote |-> {}]

LJInit ==
    /\ ljArgs = [sigma |-> 0, epsilon |-> 0, delta |-> 0]
    /\ params = ParamDefault
    /\ dict = NoDict
    /\ ev = NoEval
    /\ \E v \in OutVals : force_divr = v /\ pair_eng = v
    /\ evalRet = NoCall
    /\ ljSteps = 0

NewParamsFromDict ==
    /\ ljSteps < MaxLJSteps
    /\ \E sigma \in SigmaVals, epsilon \in EpsilonVals, delta \in DeltaVals,
          stale \in StaleScalars :
          /\ params' = ParamFromDict(sigma, epsilon, delta, stale)
          /\ ljArgs' = [sigma |-> sigma, epsilon |-> epsilon, delta |-> delta]
    /\ ljSteps' = ljSteps + 1
    /\ UNCHANGED <<dict, ev, force_divr, pair_eng, evalRet>>

NewParamsFromScalars ==
    /\ ljSteps < MaxLJSteps
    /\ \E sigma \in SigmaVals, epsilon \in EpsilonVals, delta \in DeltaVals,
          stale \in StaleScalars :
          /\ params' = ParamFromScalars(sigma, epsilon, delta, stale)
          /\ ljArgs' = [sigma |-> sigma, epsilon |-> epsilon, delta |-> delta]
    /\ ljSteps' = ljSteps + 1
    /\ UNCHANGED <<dict, ev, force_divr, pair_eng, evalRet>>

AsDict ==
    /\ ljSteps < MaxLJSteps
    /\ dict' = AsDictOf(params)
    /\ ljSteps' = ljSteps + 1
    /\ UNCHANGED <<ljArgs, params, ev, force_divr, pair_eng, evalRet>>

Construct ==
    /\ ljSteps < MaxLJSteps
    /\ \E rsq \in RsqVals, rcutsq \in RsqVals : ev' = EvaluatorCtor(rsq, rcutsq, params)
    /\ ljSteps' = ljSteps + 1
    /\ UNCHANGED <<ljArgs, params, dict, force_divr, pair_eng, evalRet>>

Evaluate ==
    /\ ljSteps < MaxLJSteps
    /\ ev.valid
    /\ \E energy_shift \in BOOLEAN :
          LET res == EvalForceAndEnergy(ev, force_divr, pair_eng, energy_shift)
          IN  /\ force_divr' = res.force_divr
              /\ pair_eng' = res.pair_eng
              /\ evalRet' = [called |-> TRUE, e |-> ev, ret |-> res.ret,
                             energy_shift |-> energy_shift, wrote |-> res.wrote,
                             pre_force_divr |-> force_divr, pre_pair_eng |-> pair_eng]
    /\ ljSteps' = ljSteps + 1
    /\ UNCHANGED <<ljArgs, params, dict, ev>>



(***************************************************************************)
(* HelfrichMeshForceCompute: vectors and per-bond geometry                 *)
(***************************************************************************)

\* #define SMALL Scalar(0.001)
SMALL == 1

V3(x, y, z) == <<x, y, z>>
V3Zero == <<0, 0, 0>>
Scalar3 == Int \X Int \X Int

V3AddF[u \in Scalar3, v \in Scalar3] ==
    <<FAdd(u[1], v[1]), FAdd(u[2], v[2]), FAdd(u[3], v[3])>>
V3SubF[u \in Scalar3, v \in Scalar3] ==
    <<FSub(u[1], v[1]), FSub(u[2], v[2]), FSub(u[3], v[3])>>
V3NegF[u \in Scalar3] == <<FNeg(u[1]), FNeg(u[2]), FNeg(u[3])>>
V3ScaleF[s \in Int, u \in Scalar3] == <<FMul(s, u[1]), FMul(s, u[2]), FMul(s, u[3])>>
V3DivSF[u \in Scalar3, s \in Int] == <<FDiv(u[1], s), FDiv(u[2], s), FDiv(u[3], s)>>
DotF[u \in Scalar3, v \in Scalar3] ==
    FAdd(FAdd(FMul(u[1], v[1]), FMul(u[2], v[2])), FMul(u[3], v[3]))

V3Add(u, v) == V3AddF[u, v]
V3Sub(u, v) == V3SubF[u, v]
V3Neg(u) == V3NegF[u]
\* Scalar * Scalar3 and Scalar3 / Scalar
V3Scale(s, u) == V3ScaleF[s, u]
V3DivS(u, s) == V3DivSF[u, s]
Dot(u, v) == DotF[u, v]

\* edge length of the periodic box
BoxL == 8 * One

\* BoxDim::minImage for an orthorhombic box periodic in all directions
MinImage1(x) ==
    IF FGe(x, BoxL \div 2) THEN FSub(x, BoxL)
    ELSE IF FLt(x, -(BoxL \div 2)) THEN FAdd(x, BoxL)
    ELSE x

MinImageF[u \in Scalar3] == <<MinImage1(u[1]), MinImage1(u[2]), MinImage1(u[3])>>
MinImage(u) == MinImageF[u]

\* if (c > 1.0) c = 1.0; if (c < -1.0) c = -1.0;
ClampCosF[c \in Int] == IF FGt(c, One) THEN One ELSE IF FLt(c, -One) THEN -One ELSE c
ClampCos(c) == ClampCosF[c]

\* s = sqrt(1.0 - c * c); if (s < SMALL) s = SMALL;
ClampedSinF[c \in Int] ==
    IF FLt(FSqrt(FSub(One, FMul(c, c))), SMALL) THEN SMALL
    ELSE FSqrt(FSub(One, FMul(c, c)))
ClampedSin(c) == ClampedSinF[c]

\* s = 1.0 / s
InvSin(c) == FDiv(One, ClampedSin(c))

RECURSIVE ScanOpposite(_, _, _, _, _, _)
\* while (idx_a == idx_c || idx_b == idx_c) { idx_c = h_rtag.data[triangle.tag[iterator]]; iterator++; }
\* stop is the index read when the scan leaves the triangle's three tags
ScanOpposite(tri, rt, idx_a, idx_b, idx_c, iterator) ==
    IF ~(idx_a = idx_c \/ idx_b = idx_c) THEN idx_c
    ELSE IF iterator > 2 THEN -1
    ELSE ScanOpposite(tri, rt, idx_a, idx_b, rt[tri[iterator + 1]], iterator + 1)

\* unsigned int idx_c = h_rtag.data[triangle.tag[0]]; followed by the scan
OppositeIdx(tri, rt, idx_a, idx_b) ==
    ScanOpposite(tri, rt, idx_a, idx_b, rt[tri[1]], 1)

\* the indices a, b, c, d of a bond
BondIdx(mesh, rt, i) ==
    LET bond == mesh.bonds[i + 1]
        idx_a == rt[bond[1]]
        idx_b == rt[bond[2]]
        triangle1 == mesh.triangles[bond[3] + 1]
        triangle2 == mesh.triangles[bond[4] + 1]
    IN  [a |-> idx_a, b |-> idx_b,
         c |-> OppositeIdx(triangle1, rt, idx_a, idx_b),
         d |-> OppositeIdx(triangle2, rt, idx_a, idx_b)]

\* the five minimum-image bond vectors
BondVectors(p, ix) ==
    [dab |-> MinImage(V3Sub(p[ix.b], p[ix.a])),
     dac |-> MinImage(V3Sub(p[ix.c], p[ix.a])),
     dad |-> MinImage(V3Sub(p[ix.d], p[ix.a])),
     dbc |-> MinImage(V3Sub(p[ix.c], p[ix.b])),
     dbd |-> MinImage(V3Sub(p[ix.d], p[ix.b]))]

\* squared lengths and lengths of the bond vectors d
Lengths(d) ==
    [rsqab |-> Dot(d.dab, d.dab), rab |-> FSqrt(Dot(d.dab, d.dab)),
     rsqac |-> Dot(d.dac, d.dac), rac |-> FSqrt(Dot(d.dac, d.dac)),
     rsqad |-> Dot(d.dad, d.dad), rad |-> FSqrt(Dot(d.dad, d.dad)),
     rsqbc |-> Dot(d.dbc, d.dbc), rbc |-> FSqrt(Dot(d.dbc, d.dbc)),
     rsqbd |-> Dot(d.dbd, d.dbd), rbd |-> FSqrt(Dot(d.dbd, d.dbd))]

\* nab = dab/rab; ... from the vectors d and their lengths l
UnitVectors(d, l) ==
    [nab |-> V3DivS(d.dab, l.rab), nac |-> V3DivS(d.dac, l.rac),
     nad |-> V3DivS(d.dad, l.rad), nbc |-> V3DivS(d.dbc, l.rbc),
     nbd |-> V3DivS(d.dbd, l.rbd)]

\* sigma_hat_ab = (cot_accb + cot_addb) / 2 with cot = c / s, s already inverted
SigmaHat(nac, nad, nbc, nbd) ==
    FDiv(FAdd(FDiv(ClampCos(Dot(nac, nbc)), InvSin(ClampCos(Dot(nac, nbc)))),
              FDiv(ClampCos(Dot(nad, nbd)), InvSin(ClampCos(Dot(nad, nbd))))),
         2 * One)

\* the clamped cosines, the inverted sines and sigma_hat_ab from the unit vectors n
Angles(n) ==
    [c_abbc |-> ClampCos(FNeg(Dot(n.nab, n.nbc))),
     s_abbc |-> InvSin(ClampCos(FNeg(Dot(n.nab, n.nbc)))),
     c_abbd |-> ClampCos(FNeg(Dot(n.nab, n.nbd))),
     s_abbd |-> InvSin(ClampCos(FNeg(Dot(n.nab, n.nbd)))),
     c_baac |-> ClampCos(Dot(n.nab, n.nac)),
     s_baac |-> InvSin(ClampCos(Dot(n.nab, n.nac))),
     c_baad |-> ClampCos(Dot(n.nab, n.nad)),
     s_baad |-> InvSin(ClampCos(Dot(n.nab, n.nad))),
     sigma_hat_ab |-> SigmaHat(n.nac, n.nad, n.nbc, n.nbd)]

\* s * s * s * dc / 2
DSigmaHatOf(s, dc) == V3DivS(V3Scale(FMul(FMul(s, s), s), dc), 2 * One)

\* dsigma_hat_ac, ..., dsigma_hat_bd from lengths l, unit vectors n and angles g
DSigmaHat(l, n, g) ==
    [ac |-> DSigmaHatOf(g.s_abbc, V3Add(V3DivS(V3Neg(n.nbc), l.rab),
                                        V3Scale(FDiv(g.c_abbc, l.rab), n.nab))),
     ad |-> DSigmaHatOf(g.s_abbd, V3Add(V3DivS(V3Neg(n.nbd), l.rab),
                                        V3Scale(FDiv(g.c_abbd, l.rab), n.nab))),
     bc |-> DSigmaHatOf(g.s_baac, V3Sub(V3DivS(n.nac, l.rab),
                                        V3Scale(FDiv(g.c_baac, l.rab), n.nab))),
     bd |-> DSigmaHatOf(g.s_baad, V3Sub(V3DivS(n.nad, l.rab),
                                        V3Scale(FDiv(g.c_baad, l.rab), n.nab)))]

\* dsigma_a .. dsigma_d and dsigma_dash_a .. dsigma_dash_d
DSigma(d, l, g, h) ==
    [a |-> V3DivS(V3Add(V3Add(V3Scale(l.rsqac, h.ac), V3Scale(l.rsqad, h.ad)),
                        V3Scale(FMul(2 * One, g.sigma_hat_ab), d.dab)), 4 * One),
     b |-> V3DivS(V3Add(V3Add(V3Scale(l.rsqbc, h.bc), V3Scale(l.rsqbd, h.bd)),
                        V3Scale(FMul(2 * One, g.sigma_hat_ab), d.dab)), 4 * One),
     c |-> V3DivS(V3Add(V3Scale(l.rsqac, h.ac), V3Scale(l.rsqbc, h.bc)), 4 * One),
     d |-> V3DivS(V3Add(V3Scale(l.rsqad, h.ad), V3Scale(l.rsqbd, h.bd)), 4 * One),
     dash_a |-> FAdd(FAdd(Dot(h.ac, d.dac), Dot(h.ad, d.dad)), g.sigma_hat_ab),
     dash_b |-> FSub(FAdd(Dot(h.bc, d.dbc), Dot(h.bd, d.dbd)), g.sigma_hat_ab),
     dash_c |-> FSub(FNeg(Dot(h.ac, d.dac)), Dot(h.bc, d.dbc)),
     dash_d |-> FSub(FNeg(Dot(h.ad, d.dad)), Dot(h.bd, d.dbd))]

\* K * (dsigma_dash_v / sigma_v * sigma_dash_v
\*      - dot(sigma_dash_v, sigma_dash_v) / (2 * sigma_v * sigma_v) * dsigma_v)
ForceTerm(K, dsd, s, sdv, ds) ==
    V3Scale(K, V3Sub(V3Scale(FDiv(dsd, s), sdv),
                     V3Scale(FDiv(Dot(sdv, sdv), FMul(FMul(2 * One, s), s)), ds)))

\* Fa from the derivatives e and the precomputed sigma arrays
ForceSum(e, ix, sig, sd, K) ==
    V3Add(V3Add(V3Add(ForceTerm(K, e.dash_a, sig[ix.a], sd[ix.a], e.a),
                      ForceTerm(K, e.dash_b, sig[ix.b], sd[ix.b], e.b)),
                ForceTerm(K, e.dash_c, sig[ix.c], sd[ix.c], e.c)),
          ForceTerm(K, e.dash_d, sig[ix.d], sd[ix.d], e.d))

\* one iteration of the loop of computeSigma: what bond i adds
SigmaTerms(p, ix) ==
    Eager(LAMBDA d :
        Eager(LAMBDA l :
            Eager(LAMBDA n :
                Eager(LAMBDA sigma_hat_ab :
                    [sigma_a |-> FMul(FMul(sigma_hat_ab, l.rsqab), One \div 4),
                     dash |-> V3Scale(sigma_hat_ab, d.dab)],
                    SigmaHat(n.nac, n.nad, n.nbc, n.nbd)),
                UnitVectors(d, l)),
            Lengths(d)),
        BondVectors(p, ix))

\* h_sigma.data[idx_a] += sigma_a; h_sigma.data[idx_b] += sigma_a;
SigmaAdd(sig, ix, t) ==
    [[sig EXCEPT ![ix.a] = FAdd(@, t.sigma_a)] EXCEPT ![ix.b] = FAdd(@, t.sigma_a)]

\* h_sigma_dash.data[idx_a] += sigma_hat_ab * dab; h_sigma_dash.data[idx_b] -= sigma_hat_ab * dab;
SigmaDashAdd(sd, ix, t) ==
    [[sd EXCEPT ![ix.a] = V3Add(@, t.dash)] EXCEPT ![ix.b] = V3Sub(@, t.dash)]

\* the force Fa of one bond, from the precomputed sigma arrays
BondForce(p, ix, sig, sd, K) ==
    Eager(LAMBDA d :
        Eager(LAMBDA l :
            Eager(LAMBDA n :
                Eager(LAMBDA g :
                    Eager(LAMBDA h :
                        Eager(LAMBDA e : ForceSum(e, ix, sig, sd, K),
                              DSigma(d, l, g, h)),
                        DSigmaHat(l, n, g)),
                    Angles(n)),
                UnitVectors(d, l)),
            Lengths(d)),
        BondVectors(p, ix))

\* helfrich_virial[0..5] of one bond
BondVirial(dab, Fa, compute_virial) ==
    IF compute_virial
    THEN <<FMul(FMul(One \div 2, dab[1]), Fa[1]),
           FMul(FMul(One \div 2, dab[2]), Fa[1]),
           FMul(FMul(One \div 2, dab[3]), Fa[1]),
           FMul(FMul(One \div 2, dab[2]), Fa[2]),
           FMul(FMul(One \div 2, dab[3]), Fa[2]),
           FMul(FMul(One \div 2, dab[3]), Fa[3])>>
    ELSE <<0, 0, 0, 0, 0, 0>>

\* m_K[0] / 2.0 * dot(sigma_dash_v, sigma_dash_v) / sigma_v
VertexEnergy(K, sdv, s) == FDiv(FMul(FDiv(K, 2 * One), Dot(sdv, sdv)), s)

(***************************************************************************)
(* HelfrichMeshForceCompute: state                                         *)
(***************************************************************************)

VARIABLES
    N,             \* m_pdata->getN(): particles with index < N are local, the rest ghosts
    NTypes,        \* m_pdata->getNTypes(): m_K, m_sigma and m_sigma_dash hold NTypes elements
    NMeshTypes,    \* m_mesh_data->getMeshBondData()->getNTypes()
    h_rtag,        \* tag -> index
    h_pos,         \* index -> position
    mesh,          \* [bonds, triangles]: tags and triangle indices
    m_K,           \* the storage at m_K[0], m_K[1], ...: past NTypes it is not m_K's
    m_sigma,       \* the storage at m_sigma[0], ...: past NTypes it is not m_sigma's
    m_sigma_dash,  \* the storage at m_sigma_dash[0], ...: likewise
    m_force,       \* index -> <<x, y, z, w>>
    m_virial,      \* index -> the six virial entries of the particle
    compute_virial,\* flags[pdata_flag::pressure_tensor] as read by the running call
    pc,            \* "idle", "sigma" (in computeSigma's loop) or "force" (in computeForces' loop)
    bi,            \* the loop variable i
    calls,         \* completed calls of computeForces
    paramOps,      \* completed calls of setParams / setParamsPython / getParams
    getRet,        \* the outcome of the last getParams, with storedK of its type then
    setRet,        \* the outcome of the last setParams / setParamsPython
    storedK        \* per type index, the K the last setParams for it was given

meshVars == <<N, NTypes, NMeshTypes, h_rtag, h_pos, mesh, m_K, m_sigma, m_sigma_dash,
              m_force, m_virial, compute_virial, pc, bi, calls, paramOps, getRet,
              setRet, storedK>>

paramVars == <<paramOps, getRet, setRet, storedK>>


\* particle indices and tags of the modelled system
ParticleIdx == 0 .. 3
\* the storage cells modelled at m_K
KSlots == 0 .. 2

\* calls of computeForces per behaviour
MaxCalls == 2

\* positions by tag: a generic tetrahedron, a planar kite, a right-angled
\* corner, c on the line through a and b, c at the place of a
Geometries ==
    { <<V3(0, 0, 0), V3(2 * One, 0, 0), V3(One, 2 * One, 0), V3(One, One, 2 * One)>>,
      <<V3(0, 0, 0), V3(2 * One, 0, 0), V3(One, 2 * One, 0), V3(One, -2 * One, 0)>>,
      <<V3(0, 0, 0), V3(One, 0, 0), V3(0, One, 0), V3(0, 0, One)>>,
      <<V3(0, 0, 0), V3(2 * One, 0, 0), V3(One, 0, 0), V3(One, 2 * One, 0)>>,
      <<V3(0, 0, 0), V3(2 * One, 0, 0), V3(0, 0, 0), V3(One, 2 * One, 0)>> }

\* two triangles sharing the edge (0,1): a boundary edge names its one triangle twice
MeshOpen ==
    [bonds |-> << <<0, 1, 0, 1>>, <<1, 2, 0, 0>>, <<2, 0, 0, 0>>,
                  <<1, 3, 1, 1>>, <<3, 0, 1, 1>> >>,
     triangles |-> << <<0, 1, 2>>, <<0, 1, 3>> >>]

\* the closed surface of a tetrahedron
MeshTetra ==
    [bonds |-> << <<0, 1, 0, 1>>, <<1, 2, 0, 2>>, <<2, 0, 0, 3>>,
                  <<0, 3, 1, 3>>, <<1, 3, 1, 2>>, <<2, 3, 2, 3>> >>,
     triangles |-> << <<0, 1, 2>>, <<0, 1, 3>>, <<1, 2, 3>>, <<2, 0, 3>> >>]

\* one triangle; the particle with tag 3 is in no bond
MeshTri ==
    [bonds |-> << <<0, 1, 0, 0>>, <<1, 2, 0, 0>>, <<2, 0, 0, 0>> >>,
     triangles |-> << <<0, 1, 2>> >>]

Meshes == {MeshOpen, MeshTetra, MeshTri}

RTags == { [t \in ParticleIdx |-> t], [t \in ParticleIdx |-> 3 - t] }

\* stiffness values
KVals == {One, 2 * One}
\* what storage never written by this object may hold
StaleVals == {0, 5 * One}

ZeroForce == [v \in ParticleIdx |-> <<0, 0, 0, 0>>]
ZeroVirial == [v \in ParticleIdx |-> <<0, 0, 0, 0, 0, 0>>]

NoGet == [called |-> FALSE, type |-> "", typ |-> 0, error |-> FALSE, dict |-> FALSE, k |-> 0,
          stored |-> [set |-> FALSE, K |-> 0]]
NoSet == [called |-> FALSE, typ |-> 0, K |-> 0, error |-> FALSE, warning |-> FALSE]
NoStored == [t \in KSlots |-> [set |-> FALSE, K |-> 0]]

NumBonds == Len(mesh.bonds)

MeshInit ==
    /\ N \in {2, 3, 4}
    /\ NTypes \in {1, 4}
    /\ NMeshTypes = 1
    /\ h_rtag \in RTags
    /\ \E g \in Geometries : h_pos = [v \in ParticleIdx |-> g[(CHOOSE t \in ParticleIdx : h_rtag[t] = v) + 1]]
    /\ mesh \in Meshes
    /\ \E k \in KVals :
          /\ m_K = [t \in KSlots |-> k]
          /\ storedK = [NoStored EXCEPT ![0] = [set |-> TRUE, K |-> k]]
    /\ \E g \in StaleVals :
          /\ m_sigma = [v \in ParticleIdx |-> g]
          /\ m_sigma_dash = [v \in ParticleIdx |-> <<g, g, g>>]
          /\ m_force = [v \in ParticleIdx |-> <<g, g, g, g>>]
          /\ m_virial = [v \in ParticleIdx |-> <<g, g, g, g, g, g>>]
    /\ compute_virial = FALSE
    /\ pc = "idle"
    /\ bi = 0
    /\ calls = 0
    /\ paramOps = 0
    /\ getRet = NoGet
    /\ setRet = NoSet

(***************************************************************************)
(* HelfrichMeshForceCompute::computeForces                                 *)
(***************************************************************************)

\* memset over getNumElements() = NTypes elements; storage past them keeps its
\* contents or, not being this array's, holds anything else
ResetSigma(sig, zero, other) ==
    [v \in ParticleIdx |-> IF v < NTypes THEN zero ELSE other[v]]

\* entry of computeForces and of computeSigma, up to the two memsets of computeSigma
computeForces_enter ==
    /\ pc = "idle"
    /\ calls < MaxCalls
    /\ \E keep \in BOOLEAN, g \in StaleVals :
          /\ m_sigma' = ResetSigma(m_sigma, 0,
                            IF keep THEN m_sigma ELSE [v \in ParticleIdx |-> g])
          /\ m_sigma_dash' = ResetSigma(m_sigma_dash, V3Zero,
                            IF keep THEN m_sigma_dash ELSE [v \in ParticleIdx |-> <<g, g, g>>])
    /\ pc' = "sigma"
    /\ bi' = 0
    /\ UNCHANGED <<N, NTypes, NMeshTypes, h_rtag, h_pos, mesh, m_K, m_force, m_virial,
                   compute_virial, calls, paramVars>>

\* one iteration of the loop of computeSigma
computeSigma_bond ==
    /\ pc = "sigma"
    /\ bi < NumBonds
    /\ \E ix \in {BondIdx(mesh, h_rtag, bi)} :
          \E t \in {SigmaTerms(h_pos, ix)} :
             /\ m_sigma' = SigmaAdd(m_sigma, ix, t)
             /\ m_sigma_dash' = SigmaDashAdd(m_sigma_dash, ix, t)
    /\ bi' = bi + 1
    /\ UNCHANGED <<N, NTypes, NMeshTypes, h_rtag, h_pos, mesh, m_K, m_force, m_virial,
                   compute_virial, pc, calls, paramVars>>

\* memset of h_force and h_virial
ZeroedForce(f) == ZeroForce
ZeroedVirial(v) == ZeroVirial

\* computeSigma returns; computeForces zeroes force and virial and reads the flags
computeForces_zero ==
    /\ pc = "sigma"
    /\ bi = NumBonds
    /\ m_force' = ZeroedForce(m_force)
    /\ m_virial' = ZeroedVirial(m_virial)
    /\ compute_virial' \in BOOLEAN
    /\ pc' = "force"
    /\ bi' = 0
    /\ UNCHANGED <<N, NTypes, NMeshTypes, h_rtag, h_pos, mesh, m_K, m_sigma, m_sigma_dash,
                   calls, paramVars>>

\* a faulty variant: every index taken for local
IsLocal_All(idx) == idx >= 0

\* if (idx < m_pdata->getN())
IsLocal(idx) == idx < N

\* the stiffness the force loop uses
LoopK == m_K[0]

\* the stiffness the force loop uses for a bond of mesh type t
BondK(t) == LoopK

\* h_force.data[idx] += / -= Fa and h_force.data[idx].w = energy, for a local idx
ForceWrite(f, idx, dF, energy) ==
    IF IsLocal(idx)
    THEN [f EXCEPT ![idx] = <<FAdd(@[1], dF[1]), FAdd(@[2], dF[2]), FAdd(@[3], dF[3]), energy>>]
    ELSE f

\* h_virial.data[j * virial_pitch + idx] += helfrich_virial[j], for a local idx
VirialWrite(vir, idx, hv) ==
    IF IsLocal(idx)
    THEN [vir EXCEPT ![idx] = [j \in 1 .. 6 |-> FAdd(@[j], hv[j])]]
    ELSE vir

\* a faulty variant: the force is taken off the opposite vertex c as well
ForceAfterBond_AlsoC(f, ix, Fa, sig, sd, K) ==
    [ForceWrite(ForceWrite(f, ix.a, Fa, VertexEnergy(K, sd[ix.a], sig[ix.a])),
                ix.b, V3Neg(Fa), VertexEnergy(K, sd[ix.b], sig[ix.b]))
        EXCEPT ![ix.c] = <<FSub(@[1], Fa[1]), FSub(@[2], Fa[2]), FSub(@[3], Fa[3]), @[4]>>]

\* the force array after a bond with indices ix and force Fa
ForceAfterBond(f, ix, Fa, sig, sd, K) ==
    ForceWrite(ForceWrite(f, ix.a, Fa, VertexEnergy(K, sd[ix.a], sig[ix.a])),
               ix.b, V3Neg(Fa), VertexEnergy(K, sd[ix.b], sig[ix.b]))

\* a faulty variant: the virial is subtracted at b
VirialAfterBond_Opposite(vir, ix, hv) ==
    VirialWrite(VirialWrite(vir, ix.a, hv), ix.b, [j \in 1 .. 6 |-> FNeg(hv[j])])

\* the virial array after a bond with indices ix and virial hv
VirialAfterBond(vir, ix, hv) == VirialWrite(VirialWrite(vir, ix.a, hv), ix.b, hv)

\* one iteration of the loop of computeForces
computeForces_bond ==
    /\ pc = "force"
    /\ bi < NumBonds
    /\ \E ix \in {BondIdx(mesh, h_rtag, bi)} :
          \E Fa \in {BondForce(h_pos, ix, m_sigma, m_sigma_dash, LoopK)} :
             \E hv \in {BondVirial(BondVectors(h_pos, ix).dab, Fa, compute_virial)} :
                /\ m_force' = ForceAfterBond(m_force, ix, Fa, m_sigma, m_sigma_dash, LoopK)
                /\ m_virial' = VirialAfterBond(m_virial, ix, hv)
    /\ bi' = bi + 1
    /\ UNCHANGED <<N, NTypes, NMeshTypes, h_rtag, h_pos, mesh, m_K, m_sigma, m_sigma_dash,
                   compute_virial, pc, calls, paramVars>>

computeForces_return ==
    /\ pc = "force"
    /\ bi = NumBonds
    /\ pc' = "idle"
    /\ bi' = 0
    /\ calls' = calls + 1
    /\ UNCHANGED <<N, NTypes, NMeshTypes, h_rtag, h_pos, mesh, m_K, m_sigma, m_sigma_dash,
                   m_force, m_virial, compute_virial, paramVars>>

(***************************************************************************)
(* computeForces as a function of the system it is called on               *)
(***************************************************************************)

ZeroSigma == [v \in ParticleIdx |-> 0]
ZeroSigmaDash == [v \in ParticleIdx |-> V3Zero]

\* the loop of computeSigma from bond i on, started on the arrays acc
RECURSIVE SigmaLoop(_, _)
SigmaLoop(acc, i) ==
    IF i >= NumBonds THEN acc
    ELSE Eager(LAMBDA ix :
             Eager(LAMBDA t :
                 Eager(LAMBDA nxt : SigmaLoop(nxt, i + 1),
                       [sigma |-> SigmaAdd(acc.sigma, ix, t),
                        sigma_dash |-> SigmaDashAdd(acc.sigma_dash, ix, t)]),
                 SigmaTerms(h_pos, ix)),
             BondIdx(mesh, h_rtag, i))

\* sigma and sigma_dash accumulated over all bonds of the mesh at the
\* current positions, every vertex starting from zero
AccumulatedSigma == SigmaLoop([sigma |-> ZeroSigma, sigma_dash |-> ZeroSigmaDash], 0)

\* the loop of computeForces from bond i on, started on the arrays acc,
\* reading the sigma arrays sg
RECURSIVE ForceLoop(_, _, _)
ForceLoop(acc, sg, i) ==
    IF i >= NumBonds THEN acc
    ELSE Eager(LAMBDA ix :
             Eager(LAMBDA Fa :
                 Eager(LAMBDA nxt : ForceLoop(nxt, sg, i + 1),
                       [force |-> ForceAfterBond(acc.force, ix, Fa, sg.sigma,
                                                 sg.sigma_dash, LoopK),
                        virial |-> VirialAfterBond(acc.virial, ix,
                                      BondVirial(BondVectors(h_pos, ix).dab, Fa,
                                                 compute_virial))]),
                 BondForce(h_pos, ix, sg.sigma, sg.sigma_dash, LoopK)),
             BondIdx(mesh, h_rtag, i))

\* force and virial of one call on zeroed arrays with the sigma of this step
ComputedForces ==
    Eager(LAMBDA sg : ForceLoop([force |-> ZeroForce, virial |-> ZeroVirial], sg, 0),
          AccumulatedSigma)


(***************************************************************************)
(* HelfrichMeshForceCompute: setParams, setParamsPython, getParams         *)
(***************************************************************************)

\* calls of the parameter interface per behaviour
MaxParamOps == 3

\* names asked for: "A" is mesh bond type 0, "B" is type 1 where the mesh has
\* two types, "X" is the name of no type
TypeNames == {"A", "B", "X"}
NameIndex(name) == IF name = "A" THEN 0 ELSE IF name = "B" THEN 1 ELSE 2

\* stiffness values handed to the setters
SetKVals == {-One, 0, One, 2 * One}

\* BondedGroupData::getTypeByName: the index of a known name; for an unknown
\* name it throws or returns an index that is not below getNTypes()
GetTypeByName(name) ==
    IF NameIndex(name) < NMeshTypes
    THEN {[threw |-> FALSE, typ |-> NameIndex(name)]}
    ELSE {[threw |-> TRUE, typ |-> 0], [threw |-> FALSE, typ |-> NMeshTypes]}

\* m_K[type] = K; and the warning for K <= 0
SetParamsEffect(type, K) ==
    /\ m_K' = [m_K EXCEPT ![type] = K]
    /\ setRet' = [called |-> TRUE, typ |-> type, K |-> K, error |-> FALSE,
                  warning |-> FLe(K, 0)]
    /\ storedK' = [storedK EXCEPT ![type] = [set |-> TRUE, K |-> K]]

\* what a read of m_K[typ] yields: the element, or for an index past the
\* NTypes allocated elements whatever that storage holds by then
ReadK(typ) == IF typ < NTypes THEN {m_K[typ]} ELSE {m_K[typ]} \cup StaleVals

setParams ==
    /\ pc = "idle"
    /\ paramOps < MaxParamOps
    /\ \E type \in KSlots, K \in SetKVals : SetParamsEffect(type, K)
    /\ paramOps' = paramOps + 1
    /\ UNCHANGED <<N, NTypes, NMeshTypes, h_rtag, h_pos, mesh, m_sigma, m_sigma_dash,
                   m_force, m_virial, compute_virial, pc, bi, calls, getRet>>

setParamsPython ==
    /\ pc = "idle"
    /\ paramOps < MaxParamOps
    /\ \E name \in TypeNames, K \in SetKVals :
          \E r \in GetTypeByName(name) :
             IF r.threw
             THEN /\ setRet' = [called |-> TRUE, typ |-> 0, K |-> K, error |-> TRUE,
                                warning |-> FALSE]
                  /\ UNCHANGED <<m_K, storedK>>
             ELSE SetParamsEffect(r.typ, K)
    /\ paramOps' = paramOps + 1
    /\ UNCHANGED <<N, NTypes, NMeshTypes, h_rtag, h_pos, mesh, m_sigma, m_sigma_dash,
                   m_force, m_virial, compute_virial, pc, bi, calls, getRet>>

getParams ==
    /\ pc = "idle"
    /\ paramOps < MaxParamOps
    /\ \E name \in TypeNames :
          \E r \in GetTypeByName(name) :
             IF r.threw \/ r.typ >= NMeshTypes
             THEN getRet' = [called |-> TRUE, type |-> name, typ |-> r.typ,
                             error |-> TRUE, dict |-> FALSE, k |-> 0,
                             stored |-> storedK[r.typ]]
             ELSE \E k \in ReadK(r.typ) :
                     getRet' = [called |-> TRUE, type |-> name, typ |-> r.typ,
                                error |-> FALSE, dict |-> TRUE, k |-> k,
                                stored |-> storedK[r.typ]]
    /\ paramOps' = paramOps + 1
    /\ UNCHANGED <<N, NTypes, NMeshTypes, h_rtag, h_pos, mesh, m_K, m_sigma, m_sigma_dash,
                   m_force, m_virial, compute_virial, pc, bi, calls, setRet, storedK>>


\* the object after construction: m_K = new Scalar[NTypes] holds what the
\* storage held
ParamsInit ==
    /\ N = 4
    /\ NTypes \in {1, 2}
    /\ NMeshTypes \in {1, 2}
    /\ h_rtag = [t \in ParticleIdx |-> t]
    /\ h_pos = [v \in ParticleIdx |-> V3Zero]
    /\ mesh = MeshOpen
    /\ m_K \in [KSlots -> StaleVals]
    /\ m_sigma = [v \in ParticleIdx |-> 0]
    /\ m_sigma_dash = [v \in ParticleIdx |-> V3Zero]
    /\ m_force = ZeroForce
    /\ m_virial = ZeroVirial
    /\ compute_virial = FALSE
    /\ pc = "idle"
    /\ bi = 0
    /\ calls = 0
    /\ paramOps = 0
    /\ getRet = NoGet
    /\ setRet = NoSet
    /\ storedK = NoStored

(***************************************************************************)
(* TwoStepNPTMTKGPU: scaling factors                                       *)
(***************************************************************************)

\* terms of the series exp is computed with
ExpTerms == 10

\* x^k / k! + ... + x^ExpTerms / ExpTerms!, from term = x^k / k!
ExpSeries[x \in Int, term \in Int, k \in Nat] ==
    IF k >= ExpTerms THEN term
    ELSE FAdd(term, ExpSeries[x, FDiv(FMul(term, x), (k + 1) * One), k + 1])

\* exp(x)
FExpF[x \in Int] ==
    IF x = NaN THEN NaN
    ELSE IF x = PosInf THEN PosInf
    ELSE IF x = NegInf THEN 0
    ELSE ExpSeries[x, One, 0]
FExp(x) == FExpF[x]

\* Scalar3 * Scalar3, component by component
V3MulF[u \in Scalar3, v \in Scalar3] ==
    <<FMul(u[1], v[1]), FMul(u[2], v[2]), FMul(u[3], v[3])>>
V3Mul(u, v) == V3MulF[u, v]

\* const Scalar a[] = {1.0, 1.0/6.0, 1.0/120.0, 1.0/5040.0, 1.0/362880.0, 1.0/39916800.0}
SinhCoeff ==
    <<One, One \div 6, One \div 120, One \div 5040, One \div 362880, 0>>

\* for (i = 0; i < 6; i++) { sinhx_fac += a[i] * term; term = term * arg * arg; }
SinhxLoop[arg \in Int, term \in Int, i \in Nat] ==
    IF i >= 6 THEN 0
    ELSE FAdd(FMul(SinhCoeff[i + 1], term),
              SinhxLoop[arg, FMul(FMul(term, arg), arg), i + 1])

\* the 6-term sum for sinh(x)/x at x = arg
SinhxFac(arg) == SinhxLoop[arg, One, 0]

\* 1.0/2.0 and 1.0/4.0
Half == One \div 2
Quarter == One \div 4

\* v_fac = 1/4 * (nu + (nu.x + nu.y + nu.z) / ndof), per direction
MtkVFac(nu, ndof) ==
    <<FMul(Quarter, FAdd(nu[1], FDiv(FAdd(FAdd(nu[1], nu[2]), nu[3]), ndof * One))),
      FMul(Quarter, FAdd(nu[2], FDiv(FAdd(FAdd(nu[1], nu[2]), nu[3]), ndof * One))),
      FMul(Quarter, FAdd(nu[3], FDiv(FAdd(FAdd(nu[1], nu[2]), nu[3]), ndof * One)))>>

\* r_fac = 1/2 * nu, per direction
MtkRFac(nu) == <<FMul(Half, nu[1]), FMul(Half, nu[2]), FMul(Half, nu[3])>>

\* exp(sign * (mult * fac + 1/2 * xi) * deltaT), per direction
ExpFac(sign, mult, fac, xi, deltaT) ==
    <<FExp(FMul(FMul(sign, FAdd(FMul(mult, fac[1]), FMul(Half, xi))), deltaT)),
      FExp(FMul(FMul(sign, FAdd(FMul(mult, fac[2]), FMul(Half, xi))), deltaT)),
      FExp(FMul(FMul(sign, FAdd(FMul(mult, fac[3]), FMul(Half, xi))), deltaT))>>

\* the 6-term sums at arg = fac * deltaT, per direction
SinhxFac3(fac, deltaT) ==
    <<SinhxFac(FMul(fac[1], deltaT)), SinhxFac(FMul(fac[2], deltaT)),
      SinhxFac(FMul(fac[3], deltaT))>>

\* the factors gpu_npt_mtk_step_one passes to its kernel
StepOneFactors(xi, nu, deltaT, ndof) ==
    Eager(LAMBDA v_fac :
        Eager(LAMBDA r_fac :
            [exp_v_fac |-> ExpFac(-One, One, v_fac, 0, deltaT),
             exp_v_fac_2 |-> ExpFac(-One, 2 * One, v_fac, xi, deltaT),
             exp_r_fac |-> ExpFac(One, One, r_fac, 0, deltaT),
             exp_r_fac_2 |-> ExpFac(One, 2 * One, r_fac, 0, deltaT),
             sinhx_fac_v |-> SinhxFac3(v_fac, deltaT),
             sinhx_fac_r |-> SinhxFac3(r_fac, deltaT)],
            MtkRFac(nu)),
        MtkVFac(nu, ndof))

\* the factors gpu_npt_mtk_step_two passes to its kernel
StepTwoFactors(nu, deltaT, ndof) ==
    Eager(LAMBDA v_fac :
        [exp_v_fac |-> ExpFac(-One, One, v_fac, 0, deltaT),
         exp_v_fac_2 |-> ExpFac(-One, 2 * One, v_fac, 0, deltaT),
         sinhx_fac_v |-> SinhxFac3(v_fac, deltaT)],
        MtkVFac(nu, ndof))

\* the factor of a whole step instead of half a step
ThermoFactor_FullStep(xi, deltaT) == FExp(FMul(FNeg(xi), deltaT))

\* exp_v_fac_thermo = exp(-1/2 * xi * deltaT)
ThermoFactor(xi, deltaT) == FExp(FMul(FMul(-Half, xi), deltaT))

(***************************************************************************)
(* TwoStepNPTMTKGPU: the kernels' threads                                  *)
(***************************************************************************)

\* v = v*exp_v_fac_2 + 1/2*deltaT*accel*exp_v_fac*sinhx_fac_v
HalfStepVel(v, accel, f, deltaT) ==
    V3Add(V3Mul(v, f.exp_v_fac_2),
          V3Mul(V3Mul(V3Scale(FMul(Half, deltaT), accel), f.exp_v_fac), f.sinhx_fac_v))

\* the velocity the position update of step one reads: v has been assigned
\* by then
PosVelocity_Stale(v_old, v_new) == v_old
PosVelocity(v_old, v_new) == v_new

\* r = r*exp_r_fac_2 + v*exp_r_fac*sinhx_fac_r*deltaT
FullStepPos(r, v, f, deltaT) ==
    V3Add(V3Mul(r, f.exp_r_fac_2),
          V3Scale(deltaT, V3Mul(V3Mul(v, f.exp_r_fac), f.sinhx_fac_r)))

\* the x, y, z of a Scalar4
XYZ(q) == <<q[1], q[2], q[3]>>
\* make_scalar4(u.x, u.y, u.z, w)
WithW_Dropped(u, w) == <<u[1], u[2], u[3], 0>>
WithW(u, w) == <<u[1], u[2], u[3], w>>

\* minv = 1.0 / vel.w; accel = net_force.xyz; accel *= minv
AccelOf(net_force, mass) == V3Scale(FDiv(One, mass), XYZ(net_force))

\* the acceleration the half-step of step two reads: the one just computed
AccelUsed_Stored(stored, fresh) == stored
AccelUsed(stored, fresh) == fresh

\* mass * (vel.x*vel.x + vel.y*vel.y + vel.z*vel.z)
Mv2(vel) ==
    FMul(vel[4], FAdd(FAdd(FMul(vel[1], vel[1]), FMul(vel[2], vel[2])),
                      FMul(vel[3], vel[3])))

\* the threads of a launch of n / block_size + 1 blocks of block_size threads
LaunchThreads_NoRemainder(n, block_size) == 0 .. (n \div block_size) * block_size - 1
LaunchThreads(n, block_size) == 0 .. ((n \div block_size) + 1) * block_size - 1

\* the guard of the wrap kernel: if (idx < N)
WrapGuard_Inclusive(idx, n) == idx <= n
WrapGuard(idx, n) == idx < n

\* a coordinate at or beyond the upper face is outside: the primary image is
\* half-open
AboveBox_Strict(x) == x > BoxL \div 2
AboveBox(x) == x >= BoxL \div 2

\* BoxDim::wrap along one axis of the periodic box [-BoxL/2, BoxL/2): the
\* coordinate is brought into the primary image, the image count follows
BoxWrap1[x \in Int, img \in Int] ==
    IF ~IsFinite(x) THEN <<x, img>>
    ELSE IF AboveBox(x) THEN BoxWrap1[x - BoxL, img + 1]
    ELSE IF x < -(BoxL \div 2) THEN BoxWrap1[x + BoxL, img - 1]
    ELSE <<x, img>>

\* box.wrap(pos, image)
BoxWrap(pos, image) ==
    [pos |-> <<BoxWrap1[pos[1], image[1]][1], BoxWrap1[pos[2], image[2]][1],
               BoxWrap1[pos[3], image[3]][1]>>,
     image |-> <<BoxWrap1[pos[1], image[1]][2], BoxWrap1[pos[2], image[2]][2],
                 BoxWrap1[pos[3], image[3]][2]>>]

\* a position is inside the primary image of the box
InBox(pos) == \A k \in 1 .. 3 : pos[k] >= -(BoxL \div 2) /\ pos[k] < BoxL \div 2

(***************************************************************************)
(* TwoStepNPTMTKGPU: state                                                 *)
(***************************************************************************)

VARIABLES
    npt_N,           \* N: the number of particles
    d_pos,           \* index -> <<x, y, z, type>>
    d_image,         \* index -> <<ix, iy, iz>>
    d_vel,           \* index -> <<vx, vy, vz, mass>>
    d_accel,         \* index -> acceleration
    d_net_force,     \* index -> <<fx, fy, fz, energy>>
    d_group_members, \* the indices of the members of the integrated group
    d_scratch,       \* block -> partial sum of the temperature reduction
    d_temperature,   \* the output of gpu_npt_mtk_temperature
    launches         \* the driver calls made, the last one last

nptVars == <<npt_N, d_pos, d_image, d_vel, d_accel, d_net_force, d_group_members,
             d_scratch, d_temperature, launches>>

\* driver calls per behaviour
MaxLaunches == 2

\* the elements of the per-particle arrays: those from npt_N on are not particles
Cells == 0 .. 2
\* the elements of d_scratch
ScratchCells == 0 .. 2

\* block_size of the step, wrap and thermostat drivers
StepBlockSize == 256
\* final_block_size of gpu_npt_mtk_temperature
FinalBlockSize == 512

NuVals == { V3Zero, <<One \div 5, One \div 10, -(One \div 10)>> }
XiVals == { 0, One, -Half }
DeltaTVals == { Half, One }
NdofVals == { 1, 3 }
BlockSizes == 1 .. 4
NumBlocks == 1 .. 3

\* duplicate-free member lists
Groups == { <<1>>, <<1, 0>>, <<0, 2>>, <<2, 0, 1>> }

\* velocities and masses: all alike, and all different
Velocities ==
    { [c \in Cells |-> <<One, One, One, 2 * One>>],
      (0 :> <<One + Half, -Half, Quarter, One>>
         @@ 1 :> <<-2 * One, 301, One + 1, 3 * One>>
         @@ 2 :> <<700, 700, -1300, 2 * One>>) }

\* positions and types: inside the box, and up to one box length outside
Positions ==
    { (0 :> <<One, 2 * One, -3 * One, 0>> @@ 1 :> <<-(BoxL \div 2), 0, 3999, 1>>
         @@ 2 :> <<0, 0, 0, 0>>),
      (0 :> <<5 * One, -5 * One, BoxL \div 2, 1>> @@ 1 :> <<One, 11 * One, -One, 0>>
         @@ 2 :> <<9 * One, 0, 0, 1>>) }


\* the arrays of a system before its first step: the members of the group are
\* particles, and the two sets of positions go with the two sets of velocities
NptInit ==
    /\ npt_N \in {2, 3}
    /\ d_pos \in Positions
    /\ d_image = [c \in Cells |-> <<0, 1, -1>>]
    /\ d_vel \in Velocities
    /\ (d_vel[0][4] = One) <=> (d_pos[0][1] = One)
    /\ d_accel = (0 :> <<One, 0, -One>> @@ 1 :> <<Half, Half, 0>> @@ 2 :> <<0, One, 0>>)
    /\ d_net_force = (0 :> <<3 * One, -One, 0, 0>> @@ 1 :> <<One, 2 * One, -3 * One, 0>>
                         @@ 2 :> <<0, 0, One, 0>>)
    /\ d_group_members \in Groups
    /\ (npt_N = 3) <=> (\E i \in 1 .. Len(d_group_members) : d_group_members[i] = 2)
    /\ d_scratch = [b \in ScratchCells |-> 7 * One]
    /\ d_temperature = 0
    /\ launches = << >>

\* the record of a driver call: its arguments, how many threads worked on each
\* element, and the arrays as the call found them
Launch(kernel, xi, nu, deltaT, ndof, block_size, num_blocks, writes) ==
    [kernel |-> kernel, xi |-> xi, nu |-> nu, deltaT |-> deltaT, ndof |-> ndof,
     block_size |-> block_size, num_blocks |-> num_blocks, writes |-> writes,
     pre_pos |-> d_pos, pre_image |-> d_image, pre_vel |-> d_vel, pre_accel |-> d_accel]

NoLaunch == Launch("none", 0, V3Zero, 0, 1, 0, 0, [c \in Cells |-> 0])

group_size == Len(d_group_members)

\* the threads of a launch over the group that pass if (group_idx < group_size)
GroupThreads == { t \in LaunchThreads(group_size, StepBlockSize) : t < group_size }

\* how many threads of a launch over the group work on the element idx
GroupWrites == [c \in Cells |-> Cardinality({ t \in GroupThreads : d_group_members[t + 1] = c })]

\* the member indices the threads of a launch over the group work on
Members == { d_group_members[t + 1] : t \in GroupThreads }

(***************************************************************************)
(* TwoStepNPTMTKGPU: the driver calls                                      *)
(***************************************************************************)

\* gpu_npt_mtk_step_one: the factors, then one thread per group member
gpu_npt_mtk_step_one ==
    /\ Len(launches) < MaxLaunches
    /\ \E xi \in XiVals, nu \in NuVals, deltaT \in DeltaTVals, ndof \in NdofVals :
          \E f \in {StepOneFactors(xi, nu, deltaT, ndof)} :
             \E v \in {[c \in Cells |-> HalfStepVel(XYZ(d_vel[c]), d_accel[c], f, deltaT)]} :
                /\ d_vel' = [c \in Cells |->
                                IF c \in Members THEN WithW(v[c], d_vel[c][4]) ELSE d_vel[c]]
                /\ d_pos' = [c \in Cells |->
                                IF c \in Members
                                THEN WithW(FullStepPos(XYZ(d_pos[c]),
                                                       PosVelocity(XYZ(d_vel[c]), v[c]),
                                                       f, deltaT),
                                           d_pos[c][4])
                                ELSE d_pos[c]]
                /\ launches' = Append(launches,
                                      Launch("step_one", xi, nu, deltaT, ndof,
                                             StepBlockSize, group_size \div StepBlockSize + 1,
                                             GroupWrites))
    /\ UNCHANGED <<npt_N, d_image, d_accel, d_net_force, d_group_members, d_scratch,
                   d_temperature>>

\* the positions and images the wrap kernel leaves
WrappedPos(pos, image, n) ==
    [c \in Cells |->
        IF \E t \in LaunchThreads(n, StepBlockSize) : WrapGuard(t, n) /\ t = c
        THEN WithW(BoxWrap(XYZ(pos[c]), image[c]).pos, pos[c][4])
        ELSE pos[c]]

WrappedImage(pos, image, n) ==
    [c \in Cells |->
        IF \E t \in LaunchThreads(n, StepBlockSize) : WrapGuard(t, n) /\ t = c
        THEN BoxWrap(XYZ(pos[c]), image[c]).image
        ELSE image[c]]

\* gpu_npt_mtk_wrap: one thread per particle
gpu_npt_mtk_wrap ==
    /\ Len(launches) < MaxLaunches
    /\ d_pos' = WrappedPos(d_pos, d_image, npt_N)
    /\ d_image' = WrappedImage(d_pos, d_image, npt_N)
    /\ launches' = Append(launches,
                          Launch("wrap", 0, V3Zero, 0, 1, StepBlockSize,
                                 npt_N \div StepBlockSize + 1,
                                 [c \in Cells |->
                                     Cardinality({ t \in LaunchThreads(npt_N, StepBlockSize) :
                                                      WrapGuard(t, npt_N) /\ t = c })]))
    /\ UNCHANGED <<npt_N, d_vel, d_accel, d_net_force, d_group_members, d_scratch,
                   d_temperature>>

\* gpu_npt_mtk_step_two: the factors, then one thread per group member
gpu_npt_mtk_step_two ==
    /\ Len(launches) < MaxLaunches
    /\ \E nu \in NuVals, deltaT \in DeltaTVals, ndof \in NdofVals :
          \E f \in {StepTwoFactors(nu, deltaT, ndof)} :
             \E accel \in {[c \in Cells |-> AccelOf(d_net_force[c], d_vel[c][4])]} :
                /\ d_vel' = [c \in Cells |->
                                IF c \in Members
                                THEN WithW(HalfStepVel(XYZ(d_vel[c]),
                                                       AccelUsed(d_accel[c], accel[c]),
                                                       f, deltaT),
                                           d_vel[c][4])
                                ELSE d_vel[c]]
                /\ d_accel' = [c \in Cells |-> IF c \in Members THEN accel[c] ELSE d_accel[c]]
                /\ launches' = Append(launches,
                                      Launch("step_two", 0, nu, deltaT, ndof,
                                             StepBlockSize, group_size \div StepBlockSize + 1,
                                             GroupWrites))
    /\ UNCHANGED <<npt_N, d_pos, d_image, d_net_force, d_group_members, d_scratch,
                   d_temperature>>

RECURSIVE TreeReduce(_, _)
\* while (offs > 0) { if (threadIdx.x < offs) sdata[threadIdx.x] += sdata[threadIdx.x + offs];
\* offs >>= 1; }: what sdata[0] holds at the end. Only the elements below
\* offs are read again.
TreeReduce(sdata, offs) ==
    IF offs = 0 THEN sdata[0]
    ELSE TreeReduce([t \in 0 .. offs - 1 |-> FAdd(sdata[t], sdata[t + offs])], offs \div 2)

\* gpu_npt_mtk_temperature_partial: d_scratch[blockIdx.x] of block b
BlockSum(vel, b, block_size) ==
    TreeReduce([t \in 0 .. block_size - 1 |->
                   IF b * block_size + t < group_size
                   THEN Mv2(vel[d_group_members[b * block_size + t + 1]])
                   ELSE 0],
               block_size \div 2)

RECURSIVE FinalSum(_, _, _, _)
\* gpu_npt_mtk_temperature_final_sum: final_sum after the loop over start
FinalSum(scratch, num_partial_sums, start, final_sum) ==
    IF start >= num_partial_sums THEN final_sum
    ELSE FinalSum(scratch, num_partial_sums, start + FinalBlockSize,
                  FAdd(final_sum,
                       TreeReduce([t \in 0 .. FinalBlockSize - 1 |->
                                      IF start + t < num_partial_sums
                                      THEN scratch[start + t] ELSE 0],
                                  FinalBlockSize \div 2)))

\* gpu_npt_mtk_temperature: the partial sums, then the final sum over ndof
gpu_npt_mtk_temperature ==
    /\ Len(launches) < MaxLaunches
    /\ \E block_size \in BlockSizes, num_blocks \in NumBlocks, ndof \in NdofVals :
          \E scratch \in {[b \in ScratchCells |->
                              IF b < num_blocks THEN BlockSum(d_vel, b, block_size)
                              ELSE d_scratch[b]]} :
             /\ d_scratch' = scratch
             /\ d_temperature' = FDiv(FinalSum(scratch, num_blocks, 0, 0), ndof * One)
             /\ launches' = Append(launches,
                                   Launch("temperature", 0, V3Zero, 0, ndof, block_size,
                                          num_blocks, [c \in Cells |-> 0]))
    /\ UNCHANGED <<npt_N, d_pos, d_image, d_vel, d_accel, d_net_force, d_group_members>>

\* the velocities the thermostat kernel leaves: v = v * exp_v_fac_thermo
ThermostatVel(vel, xi, deltaT) ==
    [c \in Cells |->
        IF c \in Members
        THEN WithW(V3Scale(ThermoFactor(xi, deltaT), XYZ(vel[c])), vel[c][4])
        ELSE vel[c]]

\* gpu_npt_mtk_thermostat: the factor, then one thread per group member
gpu_npt_mtk_thermostat ==
    /\ Len(launches) < MaxLaunches
    /\ \E xi \in XiVals, deltaT \in DeltaTVals :
          /\ d_vel' = ThermostatVel(d_vel, xi, deltaT)
          /\ launches' = Append(launches,
                                Launch("thermostat", xi, V3Zero, deltaT, 1, StepBlockSize,
                                       group_size \div StepBlockSize + 1, GroupWrites))
    /\ UNCHANGED <<npt_N, d_pos, d_image, d_accel, d_net_force, d_group_members, d_scratch,
                   d_temperature>>

(***************************************************************************)
(* HelfrichMeshForceCompute: the opposite-vertex scan, one read at a time  *)
(***************************************************************************)

VARIABLES
    scan_site,      \* which of the four copies of the scan runs
    scan_rtag,      \* h_rtag
    scan_bond,      \* bond.tag[0], bond.tag[1]
    scan_triangle,  \* triangle.tag[0..2]
    scan_idx,       \* idx_c or idx_d
    scan_iterator,  \* iterator
    scan_reads,     \* the positions of triangle.tag read so far
    scan_pc         \* "lookup", "while" or "done"

scanVars == <<scan_site, scan_rtag, scan_bond, scan_triangle, scan_idx, scan_iterator,
              scan_reads, scan_pc>>

\* reads of triangle.tag per scan
MaxScanReads == 5

\* the scan is written out four times: for idx_c and idx_d, in both functions
ScanSites == {"computeForces:idx_c", "computeForces:idx_d",
              "computeSigma:idx_c", "computeSigma:idx_d"}

\* a bond joins two different particles
BondTags == { b \in ParticleIdx \X ParticleIdx : b[1] # b[2] }
\* the three tags a triangle may hold, well formed or not
TriangleTags == ParticleIdx \X ParticleIdx \X ParticleIdx

\* while (idx_a == idx_c || idx_b == idx_c)
ScanContinues_OnlyA(idx_a, idx_b, idx) == idx_a = idx
ScanContinues(idx_a, idx_b, idx) == idx_a = idx \/ idx_b = idx

\* triangle.tag[position]: tag holds three elements; a read at position 3 or
\* beyond yields what lies behind them in memory
TagAt(triangle, position) ==
    IF position < 3 THEN {triangle[position + 1]} ELSE ParticleIdx

scan_idx_a == scan_rtag[scan_bond[1]]
scan_idx_b == scan_rtag[scan_bond[2]]

ScanInit ==
    /\ scan_site \in ScanSites
    /\ scan_rtag \in RTags
    /\ scan_bond \in BondTags
    /\ scan_triangle \in TriangleTags
    /\ scan_idx = 0
    /\ scan_iterator = 0
    /\ scan_reads = {}
    /\ scan_pc = "lookup"

\* unsigned int idx_c = h_rtag.data[triangle1.tag[0]]; unsigned int iterator = 1;
scan_lookup ==
    /\ scan_pc = "lookup"
    /\ scan_idx' = scan_rtag[scan_triangle[1]]
    /\ scan_iterator' = 1
    /\ scan_reads' = {0}
    /\ scan_pc' = "while"
    /\ UNCHANGED <<scan_site, scan_rtag, scan_bond, scan_triangle>>

\* idx_c = h_rtag.data[triangle1.tag[iterator]]; iterator++;
scan_body ==
    /\ scan_pc = "while"
    /\ ScanContinues(scan_idx_a, scan_idx_b, scan_idx)
    /\ Cardinality(scan_reads) < MaxScanReads
    /\ \E tag \in TagAt(scan_triangle, scan_iterator) : scan_idx' = scan_rtag[tag]
    /\ scan_reads' = scan_reads \cup {scan_iterator}
    /\ scan_iterator' = scan_iterator + 1
    /\ UNCHANGED <<scan_site, scan_rtag, scan_bond, scan_triangle, scan_pc>>

\* the loop condition is false
scan_exit ==
    /\ scan_pc = "while"
    /\ ~ScanContinues(scan_idx_a, scan_idx_b, scan_idx)
    /\ scan_pc' = "done"
    /\ UNCHANGED <<scan_site, scan_rtag, scan_bond, scan_triangle, scan_idx, scan_iterator,
                   scan_reads>>

(***************************************************************************)
(* TwoStepNPTMTKGPU: the temperature reduction, one thread step at a time  *)
(***************************************************************************)

VARIABLES
    tk_call,          \* block_size, num_blocks, ndof of the running call
    tk_calls,         \* calls of gpu_npt_mtk_temperature made
    th,               \* per block and thread: position, registers, barriers
    npt_mtk_sdata,    \* per block: the shared array
    tk_log,           \* accesses to the shared arrays not yet behind a barrier
    scratch_written,  \* d_scratch entries written by the first pass of this call
    scratch_read      \* d_scratch entries read by the second pass of this call

tempVars == <<tk_call, tk_calls, th, npt_mtk_sdata, tk_log, scratch_written, scratch_read>>

\* calls per behaviour
MaxTempCalls == 1
\* threads of the one block of the second pass: the driver's final_block_size,
\* a power of two, scaled down
FinalThreads == FinalBlockSize \div 256
\* threads the first pass is launched with in all its blocks together
MaxPartialThreads == 4

\* the launches of the first pass: block_size, num_blocks
TempGrids ==
    { g \in (1 .. MaxPartialThreads) \X (1 .. 3) : g[1] * g[2] <= MaxPartialThreads }

FinalBlock == <<"final", 0>>
PartialBlocks == { <<"partial", b>> : b \in 0 .. tk_call.num_blocks - 1 }
TempBlocks == PartialBlocks \cup {FinalBlock}

\* blockDim.x
BlockDim(blk) == IF blk[1] = "partial" THEN tk_call.block_size ELSE FinalThreads
BlockThreads(blk) == 0 .. BlockDim(blk) - 1

NewThread(at, barriers) ==
    [pc |-> at, offs |-> 0, start |-> 0, reg |-> 0, final_sum |-> 0,
     arrived |-> barriers, passed |-> 0]

\* __syncthreads(): a thread leaves the barrier it waits at once every thread
\* of its block has arrived at it
BarrierOpen(blk, t) ==
    \A u \in BlockThreads(blk) : th[blk][u].arrived >= th[blk][t].arrived

\* the second kernel is launched into the same stream after the first: it
\* begins when every block of the first has finished
PartialComplete ==
    \A blk \in PartialBlocks : \A t \in BlockThreads(blk) : th[blk][t].pc = "exit"
StreamOrdered_Async(complete) == TRUE
StreamOrdered(complete) == complete

\* if (threadIdx.x < offs)
Participates_Inclusive(t, offs) == t <= offs
Participates(t, offs) == t < offs

\* npt_mtk_sdata[cell] of a block; past the array lies other shared memory
SdataAt(blk, cell) ==
    IF cell < BlockDim(blk) THEN npt_mtk_sdata[blk][cell] ELSE 0

\* the accesses of thread t of blk in its present barrier interval, added to
\* the log; accesses of the block from before the interval's barrier are
\* behind a barrier all threads have arrived at and are dropped
Logged(blk, t, accesses) ==
    { a \in tk_log : a.blk # blk \/ a.epoch >= th[blk][t].passed }
    \cup { [blk |-> blk, t |-> t, epoch |-> th[blk][t].passed, cell |-> a[1], kind |-> a[2]]
            : a \in accesses }

\* the while loop of the reduction at its test, for a thread that does not
\* add in this step: offs >>= 1; __syncthreads()
ReduceTest(blk, t, r) ==
    IF r.offs > 0
    THEN IF Participates(t, r.offs)
         THEN [r EXCEPT !.pc = "read"]
         ELSE [r EXCEPT !.offs = @ \div 2, !.pc = "sync_reduce", !.arrived = @ + 1]
    ELSE [r EXCEPT !.pc = IF blk[1] = "partial" THEN "write_out" ELSE "add"]

\* where a thread is after the barrier it waited at
AfterBarrier(blk, t, r) ==
    IF r.pc = "sync_top" THEN [r EXCEPT !.pc = "load"]
    ELSE IF r.pc = "sync_load"
         THEN ReduceTest(blk, t, [r EXCEPT !.offs = BlockDim(blk) \div 2])
         ELSE ReduceTest(blk, t, r)

\* mv2_element of thread t of block b of the first pass
Mv2Element(b, t) ==
    IF b * tk_call.block_size + t < group_size
    THEN Mv2(d_vel[d_group_members[b * tk_call.block_size + t + 1]])
    ELSE 0

\* before any call: nothing is launched
TempIdle ==
    /\ tk_call = [block_size |-> 0, num_blocks |-> 0, ndof |-> 1]
    /\ tk_calls = 0
    /\ th = [blk \in {FinalBlock} |-> [t \in 0 .. FinalThreads - 1 |-> NewThread("exit", 0)]]
    /\ npt_mtk_sdata = [blk \in {FinalBlock} |-> [t \in 0 .. FinalThreads - 1 |-> 0]]
    /\ tk_log = {}
    /\ scratch_written = {}
    /\ scratch_read = {}

\* gpu_npt_mtk_temperature: both kernels are put into the stream; the blocks
\* of the first begin, the second is queued behind it
temperature_call ==
    /\ tk_calls < MaxTempCalls
    /\ \A blk \in TempBlocks : \A t \in BlockThreads(blk) : th[blk][t].pc = "exit"
    /\ \E g \in TempGrids, ndof \in NdofVals :
          /\ tk_call' = [block_size |-> g[1], num_blocks |-> g[2], ndof |-> ndof]
          /\ th' = [blk \in { <<"partial", b>> : b \in 0 .. g[2] - 1 } \cup {FinalBlock} |->
                       IF blk = FinalBlock
                       THEN [t \in 0 .. FinalThreads - 1 |-> NewThread("queued", 0)]
                       ELSE [t \in 0 .. g[1] - 1 |-> NewThread("load", 0)]]
          /\ npt_mtk_sdata' =
                    [blk \in { <<"partial", b>> : b \in 0 .. g[2] - 1 } \cup {FinalBlock} |->
                       IF blk = FinalBlock
                       THEN [t \in 0 .. FinalThreads - 1 |-> 7 * One]
                       ELSE [t \in 0 .. g[1] - 1 |-> 7 * One]]
    /\ tk_calls' = tk_calls + 1
    /\ tk_log' = {}
    /\ scratch_written' = {}
    /\ scratch_read' = {}
    /\ UNCHANGED <<d_scratch, d_temperature>>

\* the second kernel begins: for (int start = 0; ...) { __syncthreads();
final_begin ==
    /\ \A t \in BlockThreads(FinalBlock) : th[FinalBlock][t].pc = "queued"
    /\ StreamOrdered(PartialComplete)
    /\ th' = [th EXCEPT ![FinalBlock] =
                 [t \in BlockThreads(FinalBlock) |-> NewThread("sync_top", 1)]]
    /\ UNCHANGED <<tk_call, tk_calls, npt_mtk_sdata, tk_log, scratch_written, scratch_read,
                   d_scratch, d_temperature>>

\* a thread leaves __syncthreads()
thread_sync ==
    \E blk \in TempBlocks : \E t \in BlockThreads(blk) :
       /\ th[blk][t].pc \in {"sync_top", "sync_load", "sync_reduce"}
       /\ BarrierOpen(blk, t)
       /\ th' = [th EXCEPT ![blk][t] = AfterBarrier(blk, t, [@ EXCEPT !.passed = @ + 1])]
       /\ UNCHANGED <<tk_call, tk_calls, npt_mtk_sdata, tk_log, scratch_written,
                      scratch_read, d_scratch, d_temperature>>

\* first pass: npt_mtk_sdata[threadIdx.x] = mv2_element; __syncthreads();
partial_load ==
    \E blk \in PartialBlocks : \E t \in BlockThreads(blk) :
       /\ th[blk][t].pc = "load"
       /\ npt_mtk_sdata' = [npt_mtk_sdata EXCEPT ![blk][t] = Mv2Element(blk[2], t)]
       /\ tk_log' = Logged(blk, t, {<<t, "w">>})
       /\ th' = [th EXCEPT ![blk][t] = [@ EXCEPT !.pc = "sync_load", !.arrived = @ + 1]]
       /\ UNCHANGED <<tk_call, tk_calls, scratch_written, scratch_read, d_scratch,
                      d_temperature>>

\* second pass: npt_mtk_sdata[threadIdx.x] = d_scratch[start + threadIdx.x], or 0
\* past the partial sums; __syncthreads();
final_load ==
    \E t \in BlockThreads(FinalBlock) :
       /\ th[FinalBlock][t].pc = "load"
       /\ \E cell \in {th[FinalBlock][t].start + t} :
             IF cell < tk_call.num_blocks
             THEN /\ npt_mtk_sdata' = [npt_mtk_sdata EXCEPT ![FinalBlock][t] = d_scratch[cell]]
                  /\ scratch_read' = scratch_read \cup {cell}
             ELSE /\ npt_mtk_sdata' = [npt_mtk_sdata EXCEPT ![FinalBlock][t] = 0]
                  /\ scratch_read' = scratch_read
       /\ tk_log' = Logged(FinalBlock, t, {<<t, "w">>})
       /\ th' = [th EXCEPT ![FinalBlock][t] = [@ EXCEPT !.pc = "sync_load", !.arrived = @ + 1]]
       /\ UNCHANGED <<tk_call, tk_calls, scratch_written, d_scratch, d_temperature>>

\* npt_mtk_sdata[threadIdx.x] += npt_mtk_sdata[threadIdx.x + offs]: the reads
reduce_read ==
    \E blk \in TempBlocks : \E t \in BlockThreads(blk) :
       /\ th[blk][t].pc = "read"
       /\ th' = [th EXCEPT ![blk][t] =
                    [@ EXCEPT !.pc = "write",
                              !.reg = FAdd(SdataAt(blk, t),
                                           SdataAt(blk, t + th[blk][t].offs))]]
       /\ tk_log' = Logged(blk, t, {<<t, "r">>, <<t + th[blk][t].offs, "r">>})
       /\ UNCHANGED <<tk_call, tk_calls, npt_mtk_sdata, scratch_written, scratch_read,
                      d_scratch, d_temperature>>

\* ... the write; offs >>= 1; __syncthreads();
reduce_write ==
    \E blk \in TempBlocks : \E t \in BlockThreads(blk) :
       /\ th[blk][t].pc = "write"
       /\ npt_mtk_sdata' = [npt_mtk_sdata EXCEPT ![blk][t] = th[blk][t].reg]
       /\ tk_log' = Logged(blk, t, {<<t, "w">>})
       /\ th' = [th EXCEPT ![blk][t] =
                    [@ EXCEPT !.pc = "sync_reduce", !.offs = @ \div 2, !.arrived = @ + 1]]
       /\ UNCHANGED <<tk_call, tk_calls, scratch_written, scratch_read, d_scratch,
                      d_temperature>>

\* first pass: if (threadIdx.x == 0) d_scratch[blockIdx.x] = npt_mtk_sdata[0];
partial_write_out ==
    \E blk \in PartialBlocks : \E t \in BlockThreads(blk) :
       /\ th[blk][t].pc = "write_out"
       /\ th' = [th EXCEPT ![blk][t] = [@ EXCEPT !.pc = "exit"]]
       /\ IF t = 0
          THEN /\ d_scratch' = [d_scratch EXCEPT ![blk[2]] = SdataAt(blk, 0)]
               /\ scratch_written' = scratch_written \cup {blk[2]}
               /\ tk_log' = Logged(blk, t, {<<0, "r">>})
          ELSE UNCHANGED <<d_scratch, scratch_written, tk_log>>
       /\ UNCHANGED <<tk_call, tk_calls, npt_mtk_sdata, scratch_read, d_temperature>>

\* second pass: if (threadIdx.x == 0) final_sum += npt_mtk_sdata[0]; and the
\* step of the for loop: start += blockDim.x, then __syncthreads() or the exit
final_add ==
    \E t \in BlockThreads(FinalBlock) :
       /\ th[FinalBlock][t].pc = "add"
       /\ th' = [th EXCEPT ![FinalBlock][t] =
                    [@ EXCEPT !.final_sum = IF t = 0 THEN FAdd(@, SdataAt(FinalBlock, 0)) ELSE @,
                              !.start = @ + FinalThreads,
                              !.pc = IF th[FinalBlock][t].start + FinalThreads
                                          < tk_call.num_blocks
                                     THEN "sync_top" ELSE "store",
                              !.arrived = IF th[FinalBlock][t].start + FinalThreads
                                               < tk_call.num_blocks
                                          THEN @ + 1 ELSE @]]
       /\ tk_log' = IF t = 0 THEN Logged(FinalBlock, t, {<<0, "r">>}) ELSE tk_log
       /\ UNCHANGED <<tk_call, tk_calls, npt_mtk_sdata, scratch_written, scratch_read,
                      d_scratch, d_temperature>>

\* second pass: if (threadIdx.x == 0) *d_temperature = final_sum / Scalar(ndof);
final_store ==
    \E t \in BlockThreads(FinalBlock) :
       /\ th[FinalBlock][t].pc = "store"
       /\ th' = [th EXCEPT ![FinalBlock][t] = [@ EXCEPT !.pc = "exit"]]
       /\ d_temperature' = IF t = 0
                           THEN FDiv(th[FinalBlock][t].final_sum, tk_call.ndof * One)
                           ELSE d_temperature
       /\ UNCHANGED <<tk_call, tk_calls, npt_mtk_sdata, tk_log, scratch_written,
                      scratch_read, d_scratch>>

\* the arrays the reduction runs on
TempInit ==
    /\ NptInit
    /\ group_size = 3
    /\ TempIdle

\* what the reduction leaves untouched of the integrator's arrays
TempFrame == UNCHANGED <<npt_N, d_pos, d_image, d_vel, d_accel, d_net_force,
                         d_group_members, launches>>

(***************************************************************************)
(* Specifications                                                          *)
(***************************************************************************)

vars == <<ljVars, meshVars, nptVars, scanVars, tempVars>>

\* the evaluator before any use, for the behaviours of the mesh force
LJRest ==
    /\ ljArgs = [sigma |-> 0, epsilon |-> 0, delta |-> 0]
    /\ params = ParamDefault
    /\ dict = NoDict
    /\ ev = NoEval
    /\ force_divr = 0
    /\ pair_eng = 0
    /\ evalRet = NoCall
    /\ ljSteps = 0

\* the mesh force before any use, for the behaviours of the evaluator
MeshRest ==
    /\ N = 4
    /\ NTypes = 4
    /\ NMeshTypes = 1
    /\ h_rtag = [t \in ParticleIdx |-> t]
    /\ h_pos = [v \in ParticleIdx |-> V3Zero]
    /\ mesh = MeshOpen
    /\ m_K = [t \in KSlots |-> One]
    /\ m_sigma = [v \in ParticleIdx |-> 0]
    /\ m_sigma_dash = [v \in ParticleIdx |-> V3Zero]
    /\ m_force = ZeroForce
    /\ m_virial = ZeroVirial
    /\ compute_virial = FALSE
    /\ pc = "idle"
    /\ bi = 0
    /\ calls = 0
    /\ paramOps = 0
    /\ getRet = NoGet
    /\ setRet = NoSet
    /\ storedK = [NoStored EXCEPT ![0] = [set |-> TRUE, K |-> One]]

\* the integrator's arrays before any use, for the other behaviours
NptRest ==
    /\ npt_N = 2
    /\ d_pos = [c \in Cells |-> <<0, 0, 0, 0>>]
    /\ d_image = [c \in Cells |-> <<0, 0, 0>>]
    /\ d_vel = [c \in Cells |-> <<0, 0, 0, One>>]
    /\ d_accel = [c \in Cells |-> V3Zero]
    /\ d_net_force = [c \in Cells |-> <<0, 0, 0, 0>>]
    /\ d_group_members = <<0, 1>>
    /\ d_scratch = [b \in ScratchCells |-> 0]
    /\ d_temperature = 0
    /\ launches = << >>

\* no scan under way, for the other behaviours
ScanRest ==
    /\ scan_site = "computeForces:idx_c"
    /\ scan_rtag = [t \in ParticleIdx |-> t]
    /\ scan_bond = <<0, 1>>
    /\ scan_triangle = <<0, 1, 2>>
    /\ scan_idx = 0
    /\ scan_iterator = 0
    /\ scan_reads = {}
    /\ scan_pc = "lookup"

\* the evaluator and its parameters in use, the mesh force at rest
LJSpecInit == LJInit /\ MeshRest /\ NptRest /\ ScanRest /\ TempIdle

LJNext ==
    \/ NewParamsFromDict /\ UNCHANGED <<meshVars, nptVars, scanVars, tempVars>>
    \/ NewParamsFromScalars /\ UNCHANGED <<meshVars, nptVars, scanVars, tempVars>>
    \/ AsDict /\ UNCHANGED <<meshVars, nptVars, scanVars, tempVars>>
    \/ Construct /\ UNCHANGED <<meshVars, nptVars, scanVars, tempVars>>
    \/ Evaluate /\ UNCHANGED <<meshVars, nptVars, scanVars, tempVars>>

SpecLJ == LJSpecInit /\ [][LJNext]_vars

\* calls of computeForces on a parametrised mesh force
MeshSpecInit == LJRest /\ MeshInit /\ NptRest /\ ScanRest /\ TempIdle

MeshNext ==
    \/ computeForces_enter /\ UNCHANGED <<ljVars, nptVars, scanVars, tempVars>>
    \/ computeSigma_bond /\ UNCHANGED <<ljVars, nptVars, scanVars, tempVars>>
    \/ computeForces_zero /\ UNCHANGED <<ljVars, nptVars, scanVars, tempVars>>
    \/ computeForces_bond /\ UNCHANGED <<ljVars, nptVars, scanVars, tempVars>>
    \/ computeForces_return /\ UNCHANGED <<ljVars, nptVars, scanVars, tempVars>>

SpecMesh == MeshSpecInit /\ [][MeshNext]_vars

\* calls of the parameter interface on a newly constructed mesh force
ParamsSpecInit == LJRest /\ ParamsInit /\ NptRest /\ ScanRest /\ TempIdle

ParamsNext ==
    \/ setParams /\ UNCHANGED <<ljVars, nptVars, scanVars, tempVars>>
    \/ setParamsPython /\ UNCHANGED <<ljVars, nptVars, scanVars, tempVars>>
    \/ getParams /\ UNCHANGED <<ljVars, nptVars, scanVars, tempVars>>

SpecParams == ParamsSpecInit /\ [][ParamsNext]_vars

\* driver calls of the NPT integrator's GPU code on a system of particles
NptSpecInit == LJRest /\ MeshRest /\ NptInit /\ ScanRest /\ TempIdle

NptNext ==
    \/ gpu_npt_mtk_step_one /\ UNCHANGED <<ljVars, meshVars, scanVars, tempVars>>
    \/ gpu_npt_mtk_wrap /\ UNCHANGED <<ljVars, meshVars, scanVars, tempVars>>
    \/ gpu_npt_mtk_step_two /\ UNCHANGED <<ljVars, meshVars, scanVars, tempVars>>
    \/ gpu_npt_mtk_temperature /\ UNCHANGED <<ljVars, meshVars, scanVars, tempVars>>
    \/ gpu_npt_mtk_thermostat /\ UNCHANGED <<ljVars, meshVars, scanVars, tempVars>>

SpecNPT == NptSpecInit /\ [][NptNext]_vars

\* the opposite-vertex scan on every bond and every triangle of tags
ScanSpecInit == LJRest /\ MeshRest /\ NptRest /\ ScanInit /\ TempIdle

ScanNext ==
    \/ scan_lookup /\ UNCHANGED <<ljVars, meshVars, nptVars, tempVars>>
    \/ scan_body /\ UNCHANGED <<ljVars, meshVars, nptVars, tempVars>>
    \/ scan_exit /\ UNCHANGED <<ljVars, meshVars, nptVars, tempVars>>

SpecScan == ScanSpecInit /\ [][ScanNext]_vars

\* one call of gpu_npt_mtk_temperature, its threads running in any order
TempSpecInit == LJRest /\ MeshRest /\ ScanRest /\ TempInit

TempNext ==
    \/ temperature_call /\ TempFrame /\ UNCHANGED <<ljVars, meshVars, scanVars>>
    \/ final_begin /\ TempFrame /\ UNCHANGED <<ljVars, meshVars, scanVars>>
    \/ thread_sync /\ TempFrame /\ UNCHANGED <<ljVars, meshVars, scanVars>>
    \/ partial_load /\ TempFrame /\ UNCHANGED <<ljVars, meshVars, scanVars>>
    \/ final_load /\ TempFrame /\ UNCHANGED <<ljVars, meshVars, scanVars>>
    \/ reduce_read /\ TempFrame /\ UNCHANGED <<ljVars, meshVars, scanVars>>
    \/ reduce_write /\ TempFrame /\ UNCHANGED <<ljVars, meshVars, scanVars>>
    \/ partial_write_out /\ TempFrame /\ UNCHANGED <<ljVars, meshVars, scanVars>>
    \/ final_add /\ TempFrame /\ UNCHANGED <<ljVars, meshVars, scanVars>>
    \/ final_store /\ TempFrame /\ UNCHANGED <<ljVars, meshVars, scanVars>>

SpecTemp == TempSpecInit /\ [][TempNext]_vars

(***************************************************************************)
(* Claims about EvaluatorPairExpandedLJ                                    *)
(***************************************************************************)

C2_ShiftedEnergyVanishesAtCutoff ==
    (/\ ev.valid /\ ev.lj1 # 0
     /\ FGt(RcutOf(ev), 0) /\ IsFinite(RcutOf(ev))
     /\ FGt(FSub(RcutOf(ev), ev.delta), 0))
        => PairEng(ev, RcutOf(ev), RcutinvOf(ev), TRUE) = 0

\* C3: the evaluator contributes 4 eps [(sigma/(r-delta))^12 - (sigma/(r-delta))^6]
\* for every r < rcut + delta and nothing (returns false) for every r >= rcut + delta.
C3_DocumentedCutoff ==
    (evalRet.called /\ evalRet.e.lj1 # 0) =>
        LET e == evalRet.e
            r == ROf(e)
            rcut == RcutOf(e)
        IN  /\ evalRet.ret <=> FLt(r, FAdd(rcut, e.delta))
            /\ (evalRet.ret /\ ~evalRet.energy_shift) => pair_eng = UnshiftedEnergy(e, r)

\* C4: a param_type built from (sigma, epsilon, delta) stores sigma^6,
\* 4 epsilon and delta; asDict returns the delta and epsilon given, and an
\* evaluator built from the record shifts r by that delta.
C4_ParamsStoreInputs ==
    /\ params.sigma_6 = Sigma6(ljArgs.sigma)
    /\ params.epsilon_x_4 = FMul(4 * One, ljArgs.epsilon)
    /\ params.delta = ljArgs.delta
    /\ (dict.valid /\ dict = AsDictOf(params)) =>
           dict.delta = ljArgs.delta /\ dict.epsilon = ljArgs.epsilon
    /\ (ev.valid /\ ev = EvaluatorCtor(ev.rsq, ev.rcutsq, params)) =>
           ev.delta = ljArgs.delta

(***************************************************************************)
(* Claims about HelfrichMeshForceCompute::computeForces                    *)
(***************************************************************************)

\* a call of computeForces has returned and none is running
Returned == pc = "idle" /\ calls > 0

\* C5: the force and virial arrays computeForces leaves depend only on the
\* positions, the mesh and the parameters, never on what any array held
\* before the call; a second call on the unchanged system leaves what the
\* first one left.
C5_OutputIsFunctionOfSystem ==
    Returned => /\ m_force = ComputedForces.force
                /\ m_virial = ComputedForces.virial

\* the indices of the endpoints of the bonds of the mesh
BondEndpoints ==
    UNION { {h_rtag[mesh.bonds[i][1]], h_rtag[mesh.bonds[i][2]]} : i \in 1 .. NumBonds }

\* a step of the loop of computeForces
ForceStep == pc = "force" /\ pc' = "force" /\ bi' = bi + 1

\* a step of the loop of computeSigma
SigmaStep == pc = "sigma" /\ pc' = "sigma" /\ bi' = bi + 1

\* the sum over all particles of component k of a per-particle array
SumOver(arr, k) == FAdd(FAdd(FAdd(arr[0][k], arr[1][k]), arr[2][k]), arr[3][k])

\* C6: once computeForces has zeroed the arrays, and after it has returned,
\* every force, energy and virial entry of a particle with index >= N is
\* zero; a bond step writes no such particle, while a local endpoint of the
\* bond receives the bond's force (+Fa at a, -Fa at b) and its energy.
C6_GhostsNeverWritten ==
    [][ /\ (pc' = "force" \/ (pc' = "idle" /\ calls' > 0)) =>
              \A v \in ParticleIdx : v >= N =>
                  /\ m_force'[v] = <<0, 0, 0, 0>>
                  /\ m_virial'[v] = <<0, 0, 0, 0, 0, 0>>
        /\ ForceStep =>
              LET ix == BondIdx(mesh, h_rtag, bi)
                  Fa == BondForce(h_pos, ix, m_sigma, m_sigma_dash, m_K[0])
              IN  /\ ix.a < N =>
                        m_force'[ix.a] =
                            <<FAdd(m_force[ix.a][1], Fa[1]), FAdd(m_force[ix.a][2], Fa[2]),
                              FAdd(m_force[ix.a][3], Fa[3]),
                              VertexEnergy(m_K[0], m_sigma_dash[ix.a], m_sigma[ix.a])>>
                  /\ ix.b < N =>
                        m_force'[ix.b] =
                            <<FSub(m_force[ix.b][1], Fa[1]), FSub(m_force[ix.b][2], Fa[2]),
                              FSub(m_force[ix.b][3], Fa[3]),
                              VertexEnergy(m_K[0], m_sigma_dash[ix.b], m_sigma[ix.b])>>
      ]_vars

\* a call has returned on a system in which a bond joins a local particle,
\* which holds a finite non-zero force, to a ghost, which holds zeros, and
\* the arrays held non-zero values before the call
C6_Witness ==
    /\ Returned /\ N < 4
    /\ \E i \in 1 .. NumBonds :
          LET a == h_rtag[mesh.bonds[i][1]]
              b == h_rtag[mesh.bonds[i][2]]
          IN  /\ a < N /\ b >= N
              /\ m_force[a][1] # 0 /\ IsFinite(m_force[a][1])
              /\ m_force[a][4] # 0 /\ IsFinite(m_force[a][4])
              /\ m_force[b] = <<0, 0, 0, 0>>
              /\ m_virial[a][1] # 0 /\ m_virial[b] = <<0, 0, 0, 0, 0, 0>>

\* C7: in a bond step whose two endpoints are local the increment of the
\* force of b is the exact negation of the increment of the force of a, and
\* when computeForces returns on a system without ghosts each component of
\* the forces sums to zero over the particles.
C7_BondForcesCancel ==
    [][ /\ ForceStep =>
              LET ix == BondIdx(mesh, h_rtag, bi)
              IN  (ix.a < N /\ ix.b < N) =>
                      \A k \in 1 .. 3 :
                          FSub(m_force'[ix.b][k], m_force[ix.b][k])
                              = FNeg(FSub(m_force'[ix.a][k], m_force[ix.a][k]))
        /\ (pc = "force" /\ pc' = "idle" /\ N = 4) =>
              \A k \in 1 .. 3 : SumOver(m_force', k) = 0
      ]_vars

\* C8: after computeForces the energy of a local particle v that is an
\* endpoint of a bond is K/2 |sigma_dash_v|^2 / sigma_v for the sigma and
\* sigma_dash accumulated over all bonds at the current positions, and the
\* energy of a local particle in no bond is 0.
C8_EnergyFromAccumulatedSigma ==
    Returned =>
        \A v \in ParticleIdx : v < N =>
            m_force[v][4] =
                IF v \in BondEndpoints
                THEN VertexEnergy(m_K[0], AccumulatedSigma.sigma_dash[v],
                                  AccumulatedSigma.sigma[v])
                ELSE 0

\* C9: in a step of computeSigma the amount added to sigma[a] equals the
\* amount added to sigma[b] and the vector added to sigma_dash[a] is the
\* exact negation of the vector added to sigma_dash[b]; when computeSigma
\* has finished each component of sigma_dash sums to zero over the vertices.
C9_SigmaSymmetric ==
    [][ /\ SigmaStep =>
              LET ix == BondIdx(mesh, h_rtag, bi)
              IN  /\ FSub(m_sigma'[ix.a], m_sigma[ix.a]) = FSub(m_sigma'[ix.b], m_sigma[ix.b])
                  /\ \A k \in 1 .. 3 :
                        FSub(m_sigma_dash'[ix.a][k], m_sigma_dash[ix.a][k])
                            = FNeg(FSub(m_sigma_dash'[ix.b][k], m_sigma_dash[ix.b][k]))
        /\ (pc = "sigma" /\ pc' = "force") =>
              \A k \in 1 .. 3 : SumOver(m_sigma_dash', k) = 0
      ]_vars

\* the six cosines of a bond after the clamp, from the unit vectors n
BondCosines(n) ==
    { ClampCos(Dot(n.nac, n.nbc)), ClampCos(Dot(n.nad, n.nbd)),
      ClampCos(FNeg(Dot(n.nab, n.nbc))), ClampCos(FNeg(Dot(n.nab, n.nbd))),
      ClampCos(Dot(n.nab, n.nac)), ClampCos(Dot(n.nab, n.nad)) }

\* the bond lengths are usable divisors, every clamped cosine is in [-1, 1],
\* every sine is at least SMALL when it is inverted and its inverse is finite
SafeGeometry(p, ix) ==
    LET d == BondVectors(p, ix)
        l == Lengths(d)
        n == UnitVectors(d, l)
    IN  /\ \A r \in {l.rab, l.rac, l.rad, l.rbc, l.rbd} : IsFinite(r) /\ r # 0
        /\ \A c \in BondCosines(n) :
              /\ FGe(c, -One) /\ FLe(c, One)
              /\ FGe(ClampedSin(c), SMALL)
              /\ IsFinite(InvSin(c))

\* the four sigma values Fa is divided by are usable divisors and Fa is finite
SafeForce(p, ix, sig, sd, K) ==
    /\ \A v \in {ix.a, ix.b, ix.c, ix.d} : IsFinite(sig[v]) /\ sig[v] # 0
    /\ \A k \in 1 .. 3 : IsFinite(BondForce(p, ix, sig, sd, K)[k])

\* C13: in every iteration of computeSigma and of the loop of computeForces,
\* whatever the positions, each sine is at least SMALL when it is inverted,
\* each clamped cosine is in [-1, 1], and no division (by a bond length, by a
\* sine, by a vertex's sigma) has a zero divisor or gives infinity or NaN.
C13_NoDivisionBlowsUp ==
    [][ /\ SigmaStep => SafeGeometry(h_pos, BondIdx(mesh, h_rtag, bi))
        /\ ForceStep =>
              /\ SafeGeometry(h_pos, BondIdx(mesh, h_rtag, bi))
              /\ SafeForce(h_pos, BondIdx(mesh, h_rtag, bi), m_sigma, m_sigma_dash, LoopK)
      ]_vars

\* what C20 says, for the vertices in the set V
SigmaCompleteFor(V) ==
    /\ (pc = "sigma" /\ bi = 0) =>
          \A v \in V : m_sigma[v] = 0 /\ m_sigma_dash[v] = V3Zero
    /\ pc = "force" =>
          \A v \in V : /\ m_sigma[v] = AccumulatedSigma.sigma[v]
                       /\ m_sigma_dash[v] = AccumulatedSigma.sigma_dash[v]

\* C20: in a call of computeForces, computeSigma starts from sigma and
\* sigma_dash zeroed for every vertex, and while the force loop runs, after
\* computeSigma has returned, sigma and sigma_dash of every vertex are the
\* sums over all bonds for the current positions, with nothing left over from
\* an earlier call.
C20_SigmaCompleteBeforeForces == SigmaCompleteFor(ParticleIdx)

\* C20 for the vertices whose entries lie inside the arrays' NTypes elements
SigmaCompleteInsideArrays == SigmaCompleteFor({v \in ParticleIdx : v < NTypes})

(***************************************************************************)
(* Claims about the parameter interface of HelfrichMeshForceCompute        *)
(***************************************************************************)

\* C10: getParams called with a name that is not a mesh bond type raises an
\* error and returns no dictionary; called with the name of a mesh bond type
\* it returns a dictionary whose k is the K last stored for that type.
C10_GetParamsReturnsStoredK ==
    getRet.called =>
        IF NameIndex(getRet.type) >= NMeshTypes
        THEN getRet.error /\ ~getRet.dict
        ELSE /\ ~getRet.error /\ getRet.dict
             /\ getRet.stored.set => getRet.k = getRet.stored.K

\* a call of setParams or setParamsPython
SetterStep == setRet' # setRet /\ setRet'.called

\* C11: a setter call with a type index outside the range of the known types
\* raises an error and leaves every stored stiffness as it was, and no setter
\* call writes a stiffness slot outside the NTypes elements m_K was allocated
\* with.
C11_SetterRejectsUnknownType ==
    [][ SetterStep =>
            /\ setRet'.typ >= NMeshTypes => (setRet'.error /\ m_K' = m_K)
            /\ \A t \in KSlots : m_K'[t] # m_K[t] => t < NTypes
      ]_vars

\* a call of getParams
GetterStep == getRet' # getRet /\ getRet'.called

\* what C12 says of the setter alone: a call with the index of a mesh bond
\* type raises no error, stores K whatever its sign, warns exactly when
\* K <= 0 and leaves the stiffness of every other type as it was
SetterStoresAnyK ==
    [][ (SetterStep /\ setRet'.typ < NMeshTypes /\ ~setRet'.error) =>
            /\ m_K'[setRet'.typ] = setRet'.K
            /\ setRet'.warning <=> FLe(setRet'.K, 0)
            /\ \A t \in KSlots : t # setRet'.typ => m_K'[t] = m_K[t]
      ]_vars

\* C12: setParams(type, K) with the index of a mesh bond type stores K for
\* every K, with a warning and no error when K <= 0, and leaves the other
\* types alone; a following getParams for that type returns the K last set.
C12_NonPositiveKStoredAndReturned ==
    [][ /\ (SetterStep /\ setRet'.typ < NMeshTypes /\ ~setRet'.error) =>
               /\ m_K'[setRet'.typ] = setRet'.K
               /\ setRet'.warning <=> FLe(setRet'.K, 0)
               /\ \A t \in KSlots : t # setRet'.typ => m_K'[t] = m_K[t]
        /\ (GetterStep /\ NameIndex(getRet'.type) < NMeshTypes /\ getRet'.stored.set) =>
               /\ ~getRet'.error
               /\ getRet'.k = getRet'.stored.K
      ]_vars

(***************************************************************************)
(* Claims about the GPU code of TwoStepNPTMTKGPU                           *)
(***************************************************************************)

\* the last driver call made
LastLaunch == IF launches = << >> THEN NoLaunch ELSE launches[Len(launches)]

RECURSIVE GroupMv2(_)
\* the sum of mass * |v|^2 over the first n members of the group
GroupMv2(n) ==
    IF n = 0 THEN 0 ELSE FAdd(GroupMv2(n - 1), Mv2(d_vel[d_group_members[n]]))

\* what C14 says, for the block sizes that are powers of two
TemperatureForPow2Blocks ==
    (/\ LastLaunch.kernel = "temperature"
     /\ LastLaunch.block_size \in {1, 2, 4}
     /\ LastLaunch.num_blocks * LastLaunch.block_size >= group_size)
        => d_temperature = FDiv(GroupMv2(group_size), LastLaunch.ndof * One)

\* C14: gpu_npt_mtk_temperature leaves in d_temperature the sum over the
\* group of mass * (vx^2 + vy^2 + vz^2), divided by ndof, whatever block_size
\* and num_blocks it is called with, as long as num_blocks * block_size
\* covers the group.
C14_TemperatureIsGroupMv2OverNdof ==
    (/\ LastLaunch.kernel = "temperature"
     /\ LastLaunch.num_blocks * LastLaunch.block_size >= group_size)
        => d_temperature = FDiv(GroupMv2(group_size), LastLaunch.ndof * One)

\* all three components are 1
IsOne3(u) == u = <<One, One, One>>

\* C15: after gpu_npt_mtk_step_one every group member has
\* v' = v*exp_v_fac_2 + (deltaT/2)*accel*exp_v_fac*sinhx_fac_v and
\* r' = r*exp_r_fac_2 + v'*exp_r_fac*sinhx_fac_r*deltaT, the position being
\* advanced with the velocity just updated; with nu = (0,0,0) and xi = 0 all
\* exponential factors and both sinh(x)/x sums are exactly 1 and the step is
\* v' = v + (deltaT/2)*accel, r' = r + deltaT*v'.
C15_StepOneVelocityThenPosition ==
    LastLaunch.kernel = "step_one" =>
        \A c \in Members :
            LET L == LastLaunch
                f == StepOneFactors(L.xi, L.nu, L.deltaT, L.ndof)
                v == XYZ(L.pre_vel[c])
                r == XYZ(L.pre_pos[c])
                accel == L.pre_accel[c]
                v1 == XYZ(d_vel[c])
                r1 == XYZ(d_pos[c])
            IN  /\ v1 = V3Add(V3Mul(v, f.exp_v_fac_2),
                              V3Mul(V3Mul(V3Scale(FDiv(L.deltaT, 2 * One), accel),
                                          f.exp_v_fac),
                                    f.sinhx_fac_v))
                /\ r1 = V3Add(V3Mul(r, f.exp_r_fac_2),
                              V3Scale(L.deltaT, V3Mul(V3Mul(v1, f.exp_r_fac), f.sinhx_fac_r)))
                /\ (L.nu = V3Zero /\ L.xi = 0) =>
                      /\ IsOne3(f.exp_v_fac) /\ IsOne3(f.exp_v_fac_2)
                      /\ IsOne3(f.exp_r_fac) /\ IsOne3(f.exp_r_fac_2)
                      /\ IsOne3(f.sinhx_fac_v) /\ IsOne3(f.sinhx_fac_r)
                      /\ v1 = V3Add(v, V3Scale(FDiv(L.deltaT, 2 * One), accel))
                      /\ r1 = V3Add(r, V3Scale(L.deltaT, v1))

\* a step one with a barostat and a thermostat at work has moved a member
\* whose velocity it changed
C15_Witness ==
    /\ LastLaunch.kernel = "step_one"
    /\ LastLaunch.nu # V3Zero /\ LastLaunch.xi # 0
    /\ \E c \in Members :
          /\ XYZ(d_vel[c]) # XYZ(LastLaunch.pre_vel[c])
          /\ XYZ(d_pos[c]) # XYZ(LastLaunch.pre_pos[c])
          /\ \A k \in 1 .. 3 : IsFinite(d_pos[c][k])

\* after a step two: every member's velocity is the half-step from its old
\* velocity with the acceleration acc(c), that acceleration is what d_accel
\* holds, no position has changed, and with nu = (0,0,0) the half-step is
\* v' = v + (deltaT/2) * acc(c)
StepTwoWith(acc(_)) ==
    LastLaunch.kernel = "step_two" =>
        /\ d_pos = LastLaunch.pre_pos
        /\ \A c \in Members :
              LET L == LastLaunch
                  f == StepTwoFactors(L.nu, L.deltaT, L.ndof)
                  v == XYZ(L.pre_vel[c])
              IN  /\ d_accel[c] = acc(c)
                  /\ XYZ(d_vel[c]) =
                        V3Add(V3Mul(v, f.exp_v_fac_2),
                              V3Mul(V3Mul(V3Scale(FDiv(L.deltaT, 2 * One), acc(c)),
                                          f.exp_v_fac),
                                    f.sinhx_fac_v))
                  /\ L.nu = V3Zero =>
                        XYZ(d_vel[c]) = V3Add(v, V3Scale(FDiv(L.deltaT, 2 * One), acc(c)))

RoundingUlps == 2

\* the velocities of all elements agree to within RoundingUlps, the masses exactly
SameVelocities(ulps, a, b) ==
    \A c \in Cells :
        /\ a[c][4] = b[c][4]
        /\ \A k \in 1 .. 3 :
              /\ IsFinite(a[c][k]) /\ IsFinite(b[c][k])
              /\ Abs(a[c][k] - b[c][k]) <= ulps

\* after a thermostat call all three velocity components of every member are
\* the old ones times the one factor exp(-xi*deltaT/2), a call with xi = 0
\* changes no velocity, and the velocities after two thermostat calls in a
\* row are those the two calls give in the other order, to within ulps units
\* in the last place
ThermostatScales(ulps) ==
    /\ LastLaunch.kernel = "thermostat" =>
          /\ \A c \in Members :
                XYZ(d_vel[c]) =
                    V3Scale(FExp(FMul(FMul(FNeg(Half), LastLaunch.xi), LastLaunch.deltaT)),
                            XYZ(LastLaunch.pre_vel[c]))
          /\ LastLaunch.xi = 0 => d_vel = LastLaunch.pre_vel
    /\ (/\ Len(launches) >= 2
        /\ LastLaunch.kernel = "thermostat"
        /\ launches[Len(launches) - 1].kernel = "thermostat") =>
          LET first == launches[Len(launches) - 1]
          IN  SameVelocities(ulps, d_vel,
                             ThermostatVel(ThermostatVel(first.pre_vel, LastLaunch.xi,
                                                         LastLaunch.deltaT),
                                           first.xi, first.deltaT))

PrevLaunch == IF Len(launches) < 2 THEN NoLaunch ELSE launches[Len(launches) - 1]

Shifted(pos, k, s) == [pos EXCEPT ![k] = @ + s * BoxL]

\* C19: wrapping a position inside the primary image changes neither the
\* position nor the image counts, so a second wrap changes nothing; wrapping
\* a position exactly one box length outside along one axis changes that
\* axis' image count by exactly one and no other image count.
C19_WrapIdempotent ==
    /\ \A c \in Cells :
          LET pos == XYZ(d_pos[c])
              w == BoxWrap(pos, d_image[c])
          IN  (\A k \in 1 .. 3 : IsFinite(pos[k])) =>
                 /\ InBox(pos) => (w.pos = pos /\ w.image = d_image[c])
                 /\ BoxWrap(w.pos, w.image) = w
                 /\ \A k \in 1 .. 3, s \in {-1, 1} :
                       LET o == BoxWrap(Shifted(w.pos, k, s), w.image)
                       IN  /\ o.pos = w.pos
                           /\ o.image[k] = w.image[k] + s
                           /\ \A j \in 1 .. 3 : j # k => o.image[j] = w.image[j]
    /\ (LastLaunch.kernel = "wrap" /\ PrevLaunch.kernel = "wrap") =>
          (d_pos = LastLaunch.pre_pos /\ d_image = LastLaunch.pre_image)

\* a second wrap in a row has found the positions the first one had to move
C19_Witness ==
    /\ LastLaunch.kernel = "wrap" /\ PrevLaunch.kernel = "wrap"
    /\ \E c \in Cells :
          /\ c < npt_N
          /\ ~InBox(XYZ(PrevLaunch.pre_pos[c]))
          /\ InBox(XYZ(d_pos[c]))
          /\ \E k \in 1 .. 3 : d_pos[c][k] = -(BoxL \div 2)

(***************************************************************************)
(* Claims about the opposite-vertex scan                                   *)
(***************************************************************************)

\* the triangle's three tags are three different particles
ThreeDistinct(triangle) ==
    triangle[1] # triangle[2] /\ triangle[1] # triangle[3] /\ triangle[2] # triangle[3]

\* C21: on a triangle of three distinct vertices every copy of the scan, in
\* computeSigma and in computeForces, ends on a vertex of the triangle whose
\* index differs from idx_a and from idx_b, and it is the same vertex at all
\* four places: the one OppositeIdx gives for the bond and the triangle.
C21_ScanResolvesOppositeVertex ==
    (scan_pc = "done" /\ ThreeDistinct(scan_triangle)) =>
        /\ scan_idx \in { scan_rtag[scan_triangle[k]] : k \in 1 .. 3 }
        /\ scan_idx # scan_idx_a
        /\ scan_idx # scan_idx_b
        /\ scan_idx = OppositeIdx(scan_triangle, scan_rtag, scan_idx_a, scan_idx_b)

\* a scan in computeSigma that went through all three tags of its triangle
C21_Witness ==
    /\ scan_pc = "done"
    /\ ThreeDistinct(scan_triangle)
    /\ scan_site = "computeSigma:idx_d"
    /\ scan_reads = {0, 1, 2}
    /\ scan_idx = scan_rtag[scan_triangle[3]]

\* C30: whatever three tags the triangle holds, the scan reads the tags at
\* positions 0, 1 and 2 only.
C30_ScanStaysInsideTriangle == \A position \in scan_reads : position < 3

(***************************************************************************)
(* Claims about the two passes of the temperature reduction                *)
(***************************************************************************)

\* the second pass has begun
FinalBegun == tk_calls > 0 /\ \E t \in BlockThreads(FinalBlock) : th[FinalBlock][t].pc # "queued"

\* the second pass has read all it reads
FinalLoaded ==
    tk_calls > 0 /\ \A t \in BlockThreads(FinalBlock) : th[FinalBlock][t].pc \in {"store", "exit"}

\* C22: the second pass runs only when every block of the first pass has
\* finished; every d_scratch entry it reads was written before by the first
\* pass of the same call, holds that block's partial sum, and the entries it
\* reads are the num_blocks entries 0 .. num_blocks - 1.
C22_SecondPassAfterFirst ==
    /\ FinalBegun => PartialComplete
    /\ scratch_read \subseteq scratch_written
    /\ \A cell \in scratch_read : d_scratch[cell] = BlockSum(d_vel, cell, tk_call.block_size)
    /\ FinalLoaded => scratch_read = 0 .. tk_call.num_blocks - 1

\* a call with three blocks whose second pass has read all three partial sums
C22_Witness ==
    /\ FinalLoaded
    /\ tk_call.num_blocks = 3
    /\ scratch_read = {0, 1, 2}
    /\ d_scratch[2] # 0

\* no shared cell is written by one thread and read or written by another
\* within one barrier interval
RaceFree ==
    \A x \in tk_log : \A y \in tk_log :
        (x.blk = y.blk /\ x.epoch = y.epoch /\ x.cell = y.cell /\ x.t # y.t)
            => (x.kind = "r" /\ y.kind = "r")

\* a thread of the second pass that has written its cell for the chunk at
\* start finds thread 0 past the addition of every chunk before it
ChunkAddedBeforeOverwrite ==
    \A t \in BlockThreads(FinalBlock) :
        th[FinalBlock][t].pc \in {"sync_load", "read", "write", "sync_reduce", "add"}
            => th[FinalBlock][0].start >= th[FinalBlock][t].start

\* C23: under every interleaving of the threads of a block, in both kernels,
\* no cell of the shared array is written by one thread and read or written
\* by another between two barriers; no thread of the second pass writes the
\* array for the next chunk before thread 0 has added the sum of the chunk
\* before; and the sums written are those of the reduction run in order.
C23_ReductionRaceFree ==
    /\ RaceFree
    /\ ChunkAddedBeforeOverwrite
    /\ \A b \in scratch_written : d_scratch[b] = BlockSum(d_vel, b, tk_call.block_size)
    /\ (FinalLoaded /\ th[FinalBlock][0].pc = "exit") =>
           d_temperature = FDiv(FinalSum(d_scratch, tk_call.num_blocks, 0, 0),
                                tk_call.ndof * One)

\* the second pass in its second chunk: the other thread has written its cell
\* for it, thread 0 is about to reduce it
C23_Witness ==
    /\ tk_call.num_blocks = 3
    /\ th[FinalBlock][0].pc = "read"
    /\ th[FinalBlock][0].start = FinalThreads
    /\ th[FinalBlock][0].final_sum # 0
    /\ \E x \in tk_log : x.blk = FinalBlock /\ x.t = 1 /\ x.kind = "w"

(***************************************************************************)
(* Claims about the threads of the per-particle kernels                    *)
(***************************************************************************)

PerParticleKernels == {"step_one", "step_two", "thermostat"}

\* the particles listed in d_group_members
GroupSet == { d_group_members[i] : i \in 1 .. group_size }

\* no index is listed twice
DistinctMembers ==
    \A i \in 1 .. group_size : \A j \in 1 .. group_size :
        i # j => d_group_members[i] # d_group_members[j]

\* the factors the driver of launch L hands to its kernel
KernelFactors(L) ==
    IF L.kernel = "step_one" THEN StepOneFactors(L.xi, L.nu, L.deltaT, L.ndof)
    ELSE IF L.kernel = "step_two" THEN StepTwoFactors(L.nu, L.deltaT, L.ndof)
    ELSE [exp_v_fac_thermo |-> ThermoFactor(L.xi, L.deltaT)]

\* the body of one thread of the kernel of launch L, working on particle idx:
\* it reads the arrays a as they are when it runs and writes its results back
KernelThread(L, f, a, idx) ==
    IF L.kernel = "step_one"
    THEN [pos |-> [a.pos EXCEPT ![idx] =
                      WithW(FullStepPos(XYZ(a.pos[idx]),
                                        PosVelocity(XYZ(a.vel[idx]),
                                                    HalfStepVel(XYZ(a.vel[idx]), a.accel[idx],
                                                                f, L.deltaT)),
                                        f, L.deltaT),
                            a.pos[idx][4])],
          vel |-> [a.vel EXCEPT ![idx] =
                      WithW(HalfStepVel(XYZ(a.vel[idx]), a.accel[idx], f, L.deltaT),
                            a.vel[idx][4])],
          accel |-> a.accel]
    ELSE IF L.kernel = "step_two"
    THEN [pos |-> a.pos,
          vel |-> [a.vel EXCEPT ![idx] =
                      WithW(HalfStepVel(XYZ(a.vel[idx]),
                                        AccelUsed(a.accel[idx],
                                                  AccelOf(d_net_force[idx], a.vel[idx][4])),
                                        f, L.deltaT),
                            a.vel[idx][4])],
          accel |-> [a.accel EXCEPT ![idx] = AccelOf(d_net_force[idx], a.vel[idx][4])]]
    ELSE [pos |-> a.pos,
          vel |-> [a.vel EXCEPT ![idx] =
                      WithW(V3Scale(f.exp_v_fac_thermo, XYZ(a.vel[idx])), a.vel[idx][4])],
          accel |-> a.accel]

RECURSIVE RunThreads(_, _, _, _)
\* the threads with the group indices of order run one after the other
RunThreads(L, f, a, order) ==
    IF order = << >> THEN a
    ELSE RunThreads(L, f, KernelThread(L, f, a, d_group_members[Head(order) + 1]),
                    Tail(order))

\* every order in which the threads that pass the guard may run
ThreadOrders ==
    { o \in [1 .. group_size -> 0 .. group_size - 1] :
        \A i \in 1 .. group_size : \A j \in 1 .. group_size : i # j => o[i] # o[j] }

\* C24: with no index listed twice, a launch of the step-one, step-two or
\* thermostat kernel has every group member worked on by exactly one thread
\* and no other element by any, and the position, velocity and acceleration
\* arrays it leaves are those of the threads run one after the other in any
\* order.
C24_OneThreadPerMember ==
    (LastLaunch.kernel \in PerParticleKernels /\ DistinctMembers) =>
        /\ \A c \in Cells : LastLaunch.writes[c] = IF c \in GroupSet THEN 1 ELSE 0
        /\ \E f \in {KernelFactors(LastLaunch)} :
              \A order \in ThreadOrders :
                 RunThreads(LastLaunch, f,
                            [pos |-> LastLaunch.pre_pos, vel |-> LastLaunch.pre_vel,
                             accel |-> LastLaunch.pre_accel],
                            order)
                    = [pos |-> d_pos, vel |-> d_vel, accel |-> d_accel]

\* a step two on a group of three that changed the velocities
C24_Witness ==
    /\ LastLaunch.kernel = "step_two"
    /\ group_size = 3
    /\ \A c \in GroupSet : d_vel[c] # LastLaunch.pre_vel[c]

\* C25: a launch of the step-one, step-two or thermostat kernel leaves the
\* position, velocity and acceleration of every particle outside the group
\* as they were, and for every particle the mass in the fourth velocity
\* component and the type in the fourth position component.
C25_OnlyGroupMembersChange ==
    LastLaunch.kernel \in PerParticleKernels =>
        /\ \A c \in Cells \ GroupSet :
              /\ d_pos[c] = LastLaunch.pre_pos[c]
              /\ d_vel[c] = LastLaunch.pre_vel[c]
              /\ d_accel[c] = LastLaunch.pre_accel[c]
        /\ \A c \in Cells :
              /\ d_vel[c][4] = LastLaunch.pre_vel[c][4]
              /\ d_pos[c][4] = LastLaunch.pre_pos[c][4]

\* a step one that moved a member of type 1 and left a particle outside the
\* group, of type 1 as well, where it was
C25_Witness ==
    /\ LastLaunch.kernel = "step_one"
    /\ \E c \in GroupSet : d_pos[c] # LastLaunch.pre_pos[c] /\ d_pos[c][4] = 1
    /\ \E c \in Cells \ GroupSet : d_pos[c][4] = 1 /\ d_vel[c][4] # 0

(***************************************************************************)
(* Claims about the write-back of computeForces and the sigma arrays       *)
(***************************************************************************)

\* the dsigma and dsigma_dash terms of a bond
BondDerivatives(p, ix) ==
    Eager(LAMBDA d :
        Eager(LAMBDA l :
            Eager(LAMBDA n :
                Eager(LAMBDA g :
                    Eager(LAMBDA h : DSigma(d, l, g, h),
                          DSigmaHat(l, n, g)),
                    Angles(n)),
                UnitVectors(d, l)),
            Lengths(d)),
        BondVectors(p, ix))

\* (1/2) * dab_x * Fa_x, (1/2) * dab_y * Fa_x, (1/2) * dab_z * Fa_x,
\* (1/2) * dab_y * Fa_y, (1/2) * dab_z * Fa_y, (1/2) * dab_z * Fa_z
HalfOuterProduct(dab, Fa) ==
    [j \in 1 .. 6 |->
        FMul(FMul(One \div 2, dab[<<1, 2, 3, 2, 3, 3>>[j]]), Fa[<<1, 1, 1, 2, 2, 3>>[j]])]

\* what a bond step does to the virial of the local endpoints of its bond
VirialStepAdds ==
    \E ix \in {BondIdx(mesh, h_rtag, bi)} :
       \E Fa \in {BondForce(h_pos, ix, m_sigma, m_sigma_dash, LoopK)} :
          \E hv \in {HalfOuterProduct(BondVectors(h_pos, ix).dab, Fa)} :
             \A v \in {ix.a, ix.b} :
                IsLocal(v) =>
                   \A j \in 1 .. 6 : m_virial'[v][j] = FAdd(m_virial[v][j], hv[j])

\* C26: with the pressure-tensor flag set a bond step adds to the virial of
\* each local endpoint, a and b alike, the six values (1/2)*dab_x*Fa_x,
\* (1/2)*dab_y*Fa_x, (1/2)*dab_z*Fa_x, (1/2)*dab_y*Fa_y, (1/2)*dab_z*Fa_y,
\* (1/2)*dab_z*Fa_z of that bond; without the flag every virial entry is zero
\* throughout the force loop and after computeForces.
C26_VirialIsHalfOuterProduct ==
    /\ [][(ForceStep /\ compute_virial) => VirialStepAdds]_vars
    /\ []((~compute_virial /\ (pc = "force" \/ Returned)) => m_virial = ZeroVirial)

\* the flag is set and the first bond has left a finite, non-zero virial at
\* both its endpoints
C26_Witness ==
    /\ compute_virial
    /\ pc = "force"
    /\ bi = 1
    /\ \E ix \in {BondIdx(mesh, h_rtag, 0)} :
          /\ IsLocal(ix.a) /\ IsLocal(ix.b)
          /\ m_virial[ix.a] = m_virial[ix.b]
          /\ \E j \in 1 .. 6 : m_virial[ix.a][j] # 0 /\ IsFinite(m_virial[ix.a][j])

C28_ForceUsesKOfBondType ==
    \A t \in KSlots :
        (t < NMeshTypes /\ t < NTypes /\ storedK[t].set) => BondK(t) = storedK[t].K

\* C29: the indices at which the loops of computeSigma and computeForces
\* access m_sigma and m_sigma_dash are below the number of elements the
\* arrays were allocated with, so that the reset covers them.
C29_SigmaIndicesInsideArrays ==
    ((pc = "sigma" \/ pc = "force") /\ bi < NumBonds) =>
        \E ix \in {BondIdx(mesh, h_rtag, bi)} :
           \A idx \in {ix.a, ix.b, ix.c, ix.d} : idx < NTypes

====
